------------------------------ MODULE Fetcher ------------------------------
(* fetcher.py: one fetch of the source page, from the request to the decoded *)
(* body.  requests reads the body in chunks; each of its reads waits no      *)
(* longer than the read timeout for the next bytes, whose number and pace    *)
(* are the source's.  Nothing else bounds a fetch but the size limit, which  *)
(* counts the bytes iter_content yields: those of the body, not those on the *)
(* wire, when the body comes compressed or in a chunked transfer.            *)
(* A redirect to another scheme is refused by requests itself, with an       *)
(* exception, before the test of the final URL could see it.                 *)
EXTENDS Integers

CONSTANTS
    MaxBytes,       \* MAX_RESPONSE_BYTES, which no validation looks at
    ChunkSize,      \* the chunk_size of iter_content
    ReadTimeout,    \* HTTP_READ_TIMEOUT_SECONDS
    LongestGet,     \* longest wait for the headers, redirects included
    MaxUnpacked,    \* most bytes that what is read for a chunk may unpack to
    MaxTime,        \* bound: time told apart
    MaxFailures     \* bound: consecutive failures told apart

(* Bytes that are kept of a body, whatever the setting.                      *)
Limit == IF MaxBytes > 0 THEN MaxBytes ELSE 0

ASSUME FetcherAssumption ==
    /\ MaxBytes \in Int
    /\ {ChunkSize, ReadTimeout, MaxUnpacked, MaxFailures} \subseteq Nat \ {0}
    /\ LongestGet \in Nat
    /\ MaxTime \in Nat
    /\ MaxTime > LongestGet + (Limit + ChunkSize + 1) * ReadTimeout

VARIABLES
    at,         \* "idle", "get", "read", "decode", or "dead": the process is
    failures,   \* _consecutive_failures
    status,     \* resp.status_code: 200 or not
    codec,      \* does Python know resp.encoding or "utf-8"?
    coded,      \* does the body come compressed or in a chunked transfer?
    part,       \* bytes read from the wire for the next chunk
    total,      \* total, the bytes of chunks
    elapsed,    \* time since start
    last        \* what the last fetch returned

response == <<status, codec, coded>>
vars     == <<at, failures, response, part, total, elapsed, last>>

Init ==
    /\ at = "idle"
    /\ failures = 0
    /\ status = "ok" /\ codec = TRUE /\ coded = FALSE
    /\ part = 0 /\ total = 0 /\ elapsed = 0
    /\ last = "none"

Within(t) ==
    \E d \in 0 .. t :
       elapsed' = IF elapsed + d < MaxTime THEN elapsed + d ELSE MaxTime

Begin ==
    /\ at = "idle"
    /\ at' = "get"
    /\ coded' = FALSE
    /\ part' = 0 /\ total' = 0 /\ elapsed' = 0
    /\ UNCHANGED <<failures, status, codec, last>>

(* The failing returns, each of which counts the failure.                    *)
ReturnFailure ==
    /\ at' = "idle"
    /\ last' = "error"
    /\ failures' = IF failures < MaxFailures THEN failures + 1 ELSE failures

GetRaises ==
    /\ at = "get"
    /\ Within(LongestGet)
    /\ ReturnFailure
    /\ UNCHANGED <<response, part, total>>

GetReturns ==
    /\ at = "get"
    /\ Within(LongestGet)
    /\ status' \in {"ok", "other"} /\ codec' \in BOOLEAN /\ coded' \in BOOLEAN
    /\ at' = "read"
    /\ UNCHANGED <<failures, part, total, last>>

(* Some bytes of the next chunk arrive in time.                              *)
Receive ==
    /\ at = "read"
    /\ Within(ReadTimeout)
    /\ part' \in part + 1 .. ChunkSize
    /\ UNCHANGED <<at, failures, response, total, last>>

(* What has been read is a chunk as it stands, or unpacks to one of any size *)
(* or to nothing yet, in which case iter_content reads on.                   *)
Chunks == IF coded THEN 1 .. MaxUnpacked ELSE {part}

UnpackNothing ==
    /\ at = "read" /\ part > 0
    /\ coded
    /\ part' = 0
    /\ UNCHANGED <<at, failures, response, total, elapsed, last>>

(* A chunk is complete, or the source ends it early: it is counted, and kept *)
(* within the limit.                                                         *)
FitsAlways(n) == TRUE               \* mutant: no limit

Fits(n) == n <= MaxBytes

TakeChunk ==
    /\ at = "read" /\ part > 0
    /\ \E n \in Chunks : Fits(total + n) /\ total' = total + n
    /\ part' = 0
    /\ UNCHANGED <<at, failures, response, elapsed, last>>

SkipChunk ==                        \* mutant: left out, and the loop goes on
    /\ at = "read" /\ part > 0
    /\ \E n \in Chunks : ~ Fits(total + n)
    /\ part' = 0
    /\ UNCHANGED <<at, failures, response, total, elapsed, last>>

RefuseChunk ==
    /\ at = "read" /\ part > 0
    /\ \E n \in Chunks : ~ Fits(total + n)
    /\ part' = 0
    /\ ReturnFailure
    /\ UNCHANGED <<response, total, elapsed>>

(* No byte in time, a lost connection, or a body cut short or garbled.       *)
ReadRaises ==
    /\ at = "read"
    /\ Within(ReadTimeout)
    /\ ReturnFailure
    /\ UNCHANGED <<response, part, total>>

BodyEnds ==
    /\ at = "read" /\ part = 0
    /\ Within(ReadTimeout)
    /\ at' = "decode"
    /\ UNCHANGED <<failures, response, part, total, last>>

NotFound ==
    /\ at = "decode" /\ status # "ok"
    /\ ReturnFailure
    /\ UNCHANGED <<response, part, total, elapsed>>

(* An empty body is "" in any encoding.                                      *)
DecodeForgiving ==                  \* mutant: one failure less, not none
    /\ at = "decode" /\ status = "ok"
    /\ codec \/ total = 0
    /\ at' = "idle"
    /\ failures' = failures - 1
    /\ last' = "ok"
    /\ UNCHANGED <<response, part, total, elapsed>>

Decode ==
    /\ at = "decode" /\ status = "ok"
    /\ codec \/ total = 0
    /\ at' = "idle"
    /\ failures' = 0
    /\ last' = "ok"
    /\ UNCHANGED <<response, part, total, elapsed>>

(* LookupError, which is no RequestException, ends run_service.              *)
DecodeRaises ==
    /\ at = "decode" /\ status = "ok"
    /\ ~ codec /\ total > 0
    /\ at' = "dead"
    /\ UNCHANGED <<failures, response, part, total, elapsed, last>>

(* The supervisor starts the process again.                                  *)
Restart ==
    /\ at = "dead"
    /\ at' = "idle"
    /\ failures' = 0
    /\ last' = "none"
    /\ UNCHANGED <<response, part, total, elapsed>>

Fetch ==
    \/ GetRaises \/ GetReturns \/ Receive \/ UnpackNothing \/ TakeChunk
    \/ RefuseChunk \/ ReadRaises \/ BodyEnds \/ NotFound \/ Decode \/ DecodeRaises

Next == Begin \/ Fetch \/ Restart

Spec == Init /\ [][Next]_vars

(* Every wait in a fetch ends, with bytes or with the timeout.               *)
FairSpec == Spec /\ WF_vars(Fetch)

-----------------------------------------------------------------------------
(* Properties.                                                               *)

(* Every variable keeps its type, and the failure counter its range.         *)
TypeOK ==
    /\ at \in {"idle", "get", "read", "decode", "dead"}
    /\ failures \in 0 .. MaxFailures
    /\ status \in {"ok", "other"} /\ codec \in BOOLEAN /\ coded \in BOOLEAN
    /\ part \in 0 .. ChunkSize
    /\ total \in 0 .. Limit
    /\ elapsed \in 0 .. MaxTime
    /\ last \in {"none", "ok", "error"}

(* A source that drips its body, a byte just before every timeout, holds the *)
(* loop for as long as the bytes within the limit last, and no longer: if it *)
(* sends the body as it is.  Nothing in fetch bounds the time of one that    *)
(* comes compressed or in a chunked transfer.                                *)
FetchIsBounded ==
    ~ coded => elapsed <= LongestGet + (Limit + ChunkSize + 1) * ReadTimeout

(* A fetch always returns, or dies, whatever the source sends, unless bytes  *)
(* on the wire need not be bytes of the body: an endless body is cut off.    *)
FetchReturns == (at = "get") ~> (at \in {"idle", "dead"} \/ coded)

(* Every byte, chunk and answer brings the fetch nearer its end, which is a  *)
(* bounded number of steps away whatever the source sends.  Only bytes that  *)
(* unpack to nothing do not.                                                 *)
StepsLeft ==
    CASE at = "get"    -> Limit * (ChunkSize + 1) + ChunkSize + 3
      [] at = "read"   -> (Limit - total) * (ChunkSize + 1) + (ChunkSize - part) + 2
      [] at = "decode" -> 1
      [] OTHER         -> 0

FetchAdvances ==
    [][at \notin {"idle", "dead"} =>
          \/ StepsLeft' < StepsLeft
          \/ coded /\ at' = "read" /\ total' = total /\ part' = 0]_vars

(* fetcher.py:59 of the program, "never raises": a fetch ends with an answer *)
(* and a count of it.                                                        *)
Contract == INSTANCE FetchContract WITH busy <- at \in {"get", "read", "decode"}

ContractSpec == Contract!Spec
=============================================================================
