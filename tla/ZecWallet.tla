------------------------------ MODULE ZecWallet ------------------------------
(***************************************************************************)
(* Connecting a Zcash wallet on the landing page: the wallet is asked for  *)
(* an account, for a signature that proves control of it, and for its      *)
(* account again; a connection so reviewed is read again every half minute *)
(* while the page is visible.  The wallet announces nothing, answers when  *)
(* it likes, and no request can be taken back.                             *)
(***************************************************************************)
EXTENDS Integers, Sequences, FiniteSets, Absent

CONSTANTS ZecAccounts, MaxZecConnects, MaxZecMoves, MaxPolls   \* the last three are bounds

VARIABLES
  zecAccount,  \* the account the wallet has selected, or None
  zecMoves,    \* selections so far
  page,        \* the page: generation, busy, session, reviewed, visible
  requests,    \* connections begun: a sequence of records
  polls,       \* readings of the account on their way
  strayed      \* the reviewed session's account was left, or not readable, since

zecVars == <<zecAccount, zecMoves, page, requests, polls, strayed>>

Disconnected == [address |-> None, error |-> FALSE]

ZecInit ==
  /\ zecAccount \in ZecAccounts /\ zecMoves = 0
  /\ page = [generation |-> 0, busy |-> FALSE, session |-> Disconnected, reviewed |-> None,
             visible |-> TRUE]
  /\ requests = <<>> /\ polls = {} /\ strayed = FALSE

Connected == page.session.address # None /\ ~page.session.error
Live(q) == page.generation = requests[q].generation
AskPage(q, step) == requests' = [requests EXCEPT ![q].step = step]

-----------------------------------------------------------------------------
(* The wallet.                                                             *)

SelectAccount ==
  /\ zecMoves < MaxZecMoves
  /\ zecMoves' = zecMoves + 1
  /\ \E a \in (ZecAccounts \cup {None}) \ {zecAccount} : zecAccount' = a
  /\ strayed' = (page.reviewed # None)
  /\ UNCHANGED <<page, requests, polls>>

-----------------------------------------------------------------------------
(* The page.                                                               *)

\* Any connection under way is abandoned, and the reviewed session with it; the
\* effect that polls for that session is disposed.
InvalidateConnection(busy, session) ==
  /\ page' = [page EXCEPT !.generation = @ + 1, !.busy = busy, !.reviewed = None, !.session = session]
  /\ strayed' = FALSE

ConnectZec ==
  /\ ~page.busy /\ Len(requests) < MaxZecConnects
  /\ ~Connected
  /\ InvalidateConnection(TRUE, page.session)
  /\ requests' = Append(requests, [step |-> "request", address |-> None,
                                   generation |-> page.generation + 1])
  /\ UNCHANGED <<zecAccount, zecMoves, polls>>

\* Closing the dialog abandons the connection but leaves what was displayed.
CloseDialog ==
  /\ page.busy \/ page.reviewed # None
  /\ InvalidateConnection(FALSE, page.session)
  /\ UNCHANGED <<zecAccount, zecMoves, requests, polls>>

DisconnectZec ==
  /\ Connected
  /\ InvalidateConnection(FALSE, Disconnected)
  /\ UNCHANGED <<zecAccount, zecMoves, requests, polls>>

ShowOrHide ==
  /\ page' = [page EXCEPT !.visible = ~@]
  /\ UNCHANGED <<zecAccount, zecMoves, requests, polls, strayed>>

\* The connection ends with a session: its address, proven or not, or an error.
\* One that was abandoned is discarded.
Conclude(q, address, error) ==
  /\ AskPage(q, "over")
  /\ page' = IF Live(q)
             THEN [page EXCEPT !.busy = FALSE,
                     !.session = [address |-> address, error |-> error],
                     !.reviewed = IF error THEN None
                                  ELSE [address |-> address, generation |-> page.generation]]
             ELSE page

RequestZecAccounts(q) ==
  /\ requests[q].step = "request"
  /\ \/ /\ Live(q) /\ zecAccount # None
        /\ requests' = [requests EXCEPT ![q].step = "sign", ![q].address = zecAccount]
        /\ UNCHANGED page
     \/ Conclude(q, None, TRUE)
  /\ UNCHANGED <<zecAccount, zecMoves, polls, strayed>>

\* The wallet signs for the account it was asked about, whichever it has
\* selected by then, or refuses.
ProveSourceAddressControl(q) ==
  /\ requests[q].step = "sign"
  /\ \/ Live(q) /\ AskPage(q, "reread") /\ UNCHANGED page
     \/ Conclude(q, requests[q].address, TRUE)
  /\ UNCHANGED <<zecAccount, zecMoves, polls, strayed>>

RereadZecAccount(q) ==
  /\ requests[q].step = "reread"
  /\ \/ zecAccount = requests[q].address /\ Conclude(q, requests[q].address, FALSE)
     \/ Conclude(q, None, TRUE)
  /\ UNCHANGED <<zecAccount, zecMoves, polls, strayed>>

StillSelected(address) == zecAccount = address

\* The timer of the page, or its return to view.
Poll ==
  /\ page.reviewed # None /\ page.visible
  /\ Cardinality(polls) < MaxPolls
  /\ \/ polls' = polls \cup {[of |-> page.reviewed, ok |-> StillSelected(page.reviewed.address)]}
        /\ UNCHANGED strayed
     \/ polls' = polls \cup {[of |-> page.reviewed, ok |-> FALSE]} /\ strayed' = TRUE
  /\ UNCHANGED <<zecAccount, zecMoves, page, requests>>

(* Fault: a reading ends whichever session is reviewed when it arrives. *)
AnyEffect(poll) == page.reviewed # None

Undisposed(poll) == page.reviewed = poll.of

TakeVerdict ==
  /\ \E p \in polls :
       /\ polls' = polls \ {p}
       /\ page' = IF Undisposed(p) /\ ~p.ok
                  THEN [page EXCEPT !.reviewed = None, !.session = [address |-> None, error |-> TRUE]]
                  ELSE page
  /\ strayed' = (strayed /\ page'.reviewed # None)
  /\ UNCHANGED <<zecAccount, zecMoves, requests>>

ZecNext ==
  \/ SelectAccount \/ ConnectZec \/ CloseDialog \/ DisconnectZec \/ ShowOrHide \/ Poll \/ TakeVerdict
  \/ \E q \in DOMAIN requests :
       RequestZecAccounts(q) \/ ProveSourceAddressControl(q) \/ RereadZecAccount(q)

-----------------------------------------------------------------------------
\* A session is reviewed no longer than its user keeps it and the wallet stays
\* with its account: no reading of an earlier session, arriving late, ends it, and
\* no answer of an abandoned connection brings one about (the generation and the
\* disposed flag of landing-wallet-connect.tsx).
ReviewedEndsForCause ==
  [][/\ page.reviewed # None /\ page'.reviewed = None /\ page'.generation = page.generation => strayed
     /\ page.reviewed = None /\ page'.reviewed # None =>
          page.busy /\ zecAccount = page'.reviewed.address]_zecVars
=============================================================================
