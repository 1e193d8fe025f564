------------------------------ MODULE SaveOnce ------------------------------
(***************************************************************************)
(* What saving attachments promises, however often the monitor is killed,  *)
(* restarted or retries: each request puts at most one file in the folder, *)
(* and one more for each time the record of what was done for it could not *)
(* be read, under a name nothing had; a request counts as done only when   *)
(* its attachment has a file there; and files leave by the hand of others  *)
(* only.  AttachmentSave implements it.                                    *)
(***************************************************************************)
EXTENDS Integers, FiniteSets

CONSTANTS
    Ids,    \* the jobs
    Names   \* the file names

VARIABLES
    asked,     \* id -> how many downloads were requested
    open,      \* ids whose last request is not done; a failed one may be retried
    taken,     \* names under which there is something
    own,       \* id -> names under which its files are
    lapses,    \* id -> how often its record could not be read
    disturbed  \* others use the folder, or two attachments have one content

onceVars == <<asked, open, taken, own, lapses, disturbed>>

OnceInit ==
    /\ asked = [j \in Ids |-> 0]
    /\ open = {} /\ taken = {}
    /\ own = [j \in Ids |-> {}] /\ lapses = [j \in Ids |-> 0]
    /\ disturbed \in BOOLEAN

Request(j) ==
    /\ j \notin open
    /\ asked' = [asked EXCEPT ![j] = @ + 1]
    /\ open' = open \cup {j}
    /\ UNCHANGED <<taken, own, lapses, disturbed>>

Save(j, p) ==
    /\ j \in open
    /\ Cardinality(own[j]) < asked[j] + lapses[j]
    /\ p \notin taken
    /\ own' = [own EXCEPT ![j] = @ \cup {p}]
    /\ taken' = taken \cup {p}
    /\ UNCHANGED <<asked, open, lapses, disturbed>>

Done(j) ==
    /\ j \in open
    /\ own[j] # {} \/ disturbed
    /\ open' = open \ {j}
    /\ UNCHANGED <<asked, taken, own, lapses, disturbed>>

Lapse(j) ==
    /\ j \in open
    /\ lapses' = [lapses EXCEPT ![j] = @ + 1]
    /\ UNCHANGED <<asked, open, taken, own, disturbed>>

OthersPut(p) ==
    /\ p \notin taken
    /\ taken' = taken \cup {p}
    /\ disturbed' = TRUE
    /\ UNCHANGED <<asked, open, own, lapses>>

OthersTake(p) ==
    /\ p \in taken
    /\ taken' = taken \ {p}
    /\ own' = [j \in Ids |-> own[j] \ {p}]
    /\ disturbed' = TRUE
    /\ UNCHANGED <<asked, open, lapses>>

OnceNext ==
    \/ \E j \in Ids : Request(j) \/ Done(j) \/ Lapse(j)
    \/ \E j \in Ids, p \in Names : Save(j, p)
    \/ \E p \in Names : OthersPut(p) \/ OthersTake(p)

OnceSpec == OnceInit /\ [][OnceNext]_onceVars
=============================================================================
