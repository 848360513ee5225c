------------------------------ MODULE PagerMon ------------------------------
(* pagermon.py: how PagerMonClient.deliver reads an HTTP exchange, and the   *)
(* PagerMon server as that code meets it: a service that may store a POSTed  *)
(* message, answer late or not at all.  The server is outside the            *)
(* repository, so what it does is a choice among all the client allows for.  *)
EXTENDS Dispatch

CONSTANT StrayPages     \* may a 200 come from something other than the
                        \* message endpoint (a redirect, a proxy)?
ASSUME StrayAssumption == StrayPages \in BOOLEAN

VARIABLES
    copies,     \* how often PagerMon has stored each dispatch
    filtered,   \* the dispatches PagerMon's filter has dropped
    orphans     \* POSTs in flight whose client has stopped waiting

serverVars == <<copies, filtered, orphans>>

(* An HTTP answer as far as deliver tells them apart: 401 stands for 403     *)
(* too, 404 for 429 and for every other status it has no case of its own     *)
(* for, 500 for all above.  Status 0 is no answer.                           *)
Answers == [status : {200}, body : {"id", "duplicate", "filtered", "page"}]
      \cup [status : {401, 404}, body : {"text"}]
      \cup [status : {500}, body : {"missing", "text"}]
Waiting    == [status |-> 0, body |-> "waiting"]
NoResponse == [status |-> 0, body |-> "no response"]
Replies    == Answers \cup {Waiting, NoResponse}

ServerTypeOK ==
    /\ copies \in [Dispatches -> Nat]
    /\ filtered \subseteq Dispatches
    /\ orphans \in [Dispatches -> Nat]

ServerInit ==
    /\ copies = [h \in Dispatches |-> 0]
    /\ filtered = {}
    /\ orphans = [h \in Dispatches |-> 0]

(* The answers the server may give a POST of h, and whether it stored it:    *)
(* a new id means it did, a 500 leaves it open, everything else means no.    *)
MayAnswer(h, answer, stored) ==
    /\ answer.body = "id" => stored
    /\ stored => answer.body = "id" \/ answer = [status |-> 500, body |-> "text"]
    /\ answer.body = "duplicate" => copies[h] > 0
    /\ answer.body = "page" => StrayPages

(* The server handles one POST of h.                                         *)
Handle(h, answer, stored) ==
    /\ MayAnswer(h, answer, stored)
    /\ copies' = [copies EXCEPT ![h] = IF stored THEN @ + 1 ELSE @]
    /\ filtered' = IF answer.body = "filtered" THEN filtered \cup {h} ELSE filtered

(* A POST of h is left behind by its client.                                 *)
Abandon(h) == orphans' = [orphans EXCEPT ![h] = @ + 1]

(* An abandoned POST reaches the server after all, or is lost.               *)
LateArrival(h) ==
    /\ orphans[h] > 0
    /\ orphans' = [orphans EXCEPT ![h] = @ - 1]
    /\ \E answer \in Answers, stored \in BOOLEAN : Handle(h, answer, stored)

LateLoss(h) ==
    /\ orphans[h] > 0
    /\ orphans' = [orphans EXCEPT ![h] = @ - 1]
    /\ UNCHANGED <<copies, filtered>>

(* deliver: the DeliveryResult of an exchange.  Any 200 is a success.        *)
SuccessOnAnyAnswer(reply) == reply.status # 0         \* mutant: unread status

Success(reply) == reply.status = 200

(* Its error_category, as mark_failed writes it.                             *)
ErrorCategoryForgotten(reply) ==    \* mutant: a return without one, which
    CASE reply.status = 401     -> "auth"           \* main.py turns into unknown
      [] reply.body = "missing" -> "format"
      [] reply.status = 0       -> "unknown"
      [] OTHER                  -> "server"

ErrorCategory(reply) ==
    CASE reply.status = 401     -> "auth"
      [] reply.body = "missing" -> "format"
      [] reply.status = 0       -> "network"
      [] OTHER                  -> "server"

(* After this reply the client cannot know whether PagerMon took the POST.   *)
Unsettled(reply) == reply \in {NoResponse, [status |-> 500, body |-> "text"]}
=============================================================================
