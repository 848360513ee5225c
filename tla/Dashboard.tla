----------------------------- MODULE Dashboard -----------------------------
(* webui.py's pages that show the bridge and change nothing of it: a request *)
(* runs on a thread of the web server, next to the loop of Poller.  It takes *)
(* a copy of the shared state, asks the store, and is shown some time later. *)
(* The store's connection may be used by the thread that has opened it and   *)
(* by no other (sqlite3's check_same_thread), which the pages meet by        *)
(* showing what they have.                                                   *)
EXTENDS Poller

CONSTANT Requests       \* the web server's threads

VARIABLES
    state,      \* the copy of _shared_state each request holds
    page        \* the page last shown: what it says of the table and the source

webVars == <<state, page>>

NoState == [NoStatus EXCEPT !.status = "unread"]
NoPage  == [found |-> NoCount, pending |-> 0, settled |-> 0]

DashboardInit ==
    /\ Init
    /\ state = [r \in Requests |-> NoState]
    /\ page = NoPage

-----------------------------------------------------------------------------
(* Does a query through app.config["store"] answer on this thread?  The loop *)
(* opened it, and closes it when it ends.                                    *)
Owner == IF at = "ended" THEN "nobody" ELSE "loop"

Answers(thread) == thread = Owner

GetState(r) ==
    /\ state[r] = NoState
    /\ state' = [state EXCEPT ![r] = shared]
    /\ UNCHANGED <<vars, page>>

CopyTwice(r) ==         \* mutant: the state is asked for again
    [state[r] EXCEPT !.found = shared.found]

Copy(r) == state[r]

(* /api/status: the table's counts, or the copy's.                           *)
Counts(r) ==
    IF Answers(r) THEN [pending |-> pending, settled |-> settled]
    ELSE [pending |-> Copy(r).pending, settled |-> Copy(r).settled]

(* The dashboard: these, and what the copy says of the last fetch.           *)
Render(r) == [found |-> Copy(r).found, pending |-> Counts(r).pending,
              settled |-> Counts(r).settled]

ShowPage(r) ==
    /\ state[r] # NoState
    /\ page' = Render(r)
    /\ state' = [state EXCEPT ![r] = NoState]
    /\ UNCHANGED vars

(* The loop, and the end of the process, which takes the requests with it.   *)
Bridge ==
    /\ Next
    /\ state' = IF at = "ended" THEN [r \in Requests |-> NoState] ELSE state
    /\ UNCHANGED page

DashboardNext ==
    \/ Bridge
    \/ \E r \in Requests : GetState(r) \/ ShowPage(r)

DashboardSpec == DashboardInit /\ [][DashboardNext]_<<vars, webVars>>

-----------------------------------------------------------------------------
(* Properties.                                                               *)

States == [status : {"unread", "none", "ok", "error"}, found : Nat \cup {NoCount},
           pending : Nat, settled : Nat]
Pages  == [found : Nat \cup {NoCount}, pending : Nat, settled : Nat]

(* Copies and pages keep their types, next to a loop that keeps its own.     *)
WebTypeOK ==
    /\ TypeOK
    /\ state \in [Requests -> States]
    /\ page \in Pages

(* However long a request takes, whatever the loop does meanwhile and even   *)
(* if it is restarted: a page never counts a row that is not in the table,   *)
(* nor one as settled that is not.                                           *)
PageIsPast ==
    /\ page.pending + page.settled <= pending + settled
    /\ page.settled <= settled

(* The parts of a page fit together: the dispatches it says were found are   *)
(* all among those it counts, although two updates of the loop publish them. *)
FoundAreCounted == page.found <= page.pending + page.settled
=============================================================================
