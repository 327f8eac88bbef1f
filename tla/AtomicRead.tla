------------------------------ MODULE AtomicRead ------------------------------
(***************************************************************************)
(* What the read path promises, with no connection, cursor or position in  *)
(* sight: a request looks at each of its tables once, spans before logs;   *)
(* a look is at what is committed at that moment, and takes the oldest     *)
(* rows up to the limit; then it is answered with all it has seen, or      *)
(* with nothing.  Query implements this specification (Query!Looks).       *)
(***************************************************************************)
EXTENDS Oldest

CONSTANTS
    Stamp, Batches, Readers, Asks,
    Wants,         \* Wants[a][t]: the rows of table t that request a is for;
                   \* what is not in DOMAIN Wants is refused
    Limit,         \* Limit[a]: at most so many of a table
    ListsErrors,   \* the requests whose answer lists ...
    ErrorRows,     \* ... these rows apart
    NoAsk

VARIABLES
    db,            \* committed rows
    ask,           \* ask[r]: the request
    reply,         \* reply[r]: "none" while r is being served
    looked,        \* looked[r]: the tables it has looked at
    answer, errors

vars == <<db, ask, reply, looked, answer, errors>>

Init ==
    /\ db = {}
    /\ ask = [r \in Readers |-> NoAsk]
    /\ reply = [r \in Readers |-> "idle"]
    /\ looked = [r \in Readers |-> {}]
    /\ answer = [r \in Readers |-> {}]
    /\ errors = [r \in Readers |-> {}]

Ask(r) ==
    /\ reply[r] = "idle"
    /\ \E a \in Asks[r] :
          /\ ask' = [ask EXCEPT ![r] = a]
          /\ reply' = [reply EXCEPT ![r] = IF a \in DOMAIN Wants THEN "none" ELSE "refused"]
    /\ UNCHANGED <<db, looked, answer, errors>>

Look(r, t) ==
    /\ reply[r] = "none"
    /\ t \in DOMAIN Wants[ask[r]] \ looked[r]
    /\ t = "logs" => "spans" \notin DOMAIN Wants[ask[r]] \ looked[r]
    /\ \E V \in OldestOf(Wants[ask[r]][t] \cap db, Limit[ask[r]], Stamp) :
          answer' = [answer EXCEPT ![r] = @ \cup V]
    /\ looked' = [looked EXCEPT ![r] = @ \cup {t}]
    /\ UNCHANGED <<db, ask, reply, errors>>

Answer(r) ==
    /\ reply[r] = "none"
    /\ looked[r] = DOMAIN Wants[ask[r]]
    /\ reply' = [reply EXCEPT ![r] = "done"]
    /\ errors' = IF ask[r] \in ListsErrors
                   THEN [errors EXCEPT ![r] = answer[r] \cap ErrorRows] ELSE errors
    /\ UNCHANGED <<db, ask, looked, answer>>

Fail(r) ==
    /\ reply[r] = "none"
    /\ reply' = [reply EXCEPT ![r] = "failed"]
    /\ looked' = [looked EXCEPT ![r] = {}]
    /\ answer' = [answer EXCEPT ![r] = {}]
    /\ UNCHANGED <<db, ask, errors>>

Gain == /\ \E B \in Batches : B \cap db = {} /\ db' = db \cup B
        /\ UNCHANGED <<ask, reply, looked, answer, errors>>

Lose == db' \subseteq db /\ UNCHANGED <<ask, reply, looked, answer, errors>>

Next ==
    \/ \E r \in Readers : Ask(r) \/ Answer(r) \/ Fail(r)
    \/ \E r \in Readers, t \in {"spans", "logs", "metrics"} : Look(r, t)
    \/ Gain \/ Lose

Spec == Init /\ [][Next]_vars
=============================================================================
