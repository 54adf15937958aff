----------------------- MODULE LockFreeRingBufferHist -----------------------
(***************************************************************************)
(* The ring buffer with a history of what was true during each dequeue, to *)
(* say when it may return nothing.  In the thread pool a ring has a single *)
(* consumer, for which that is tracked; with more, nothing is promised.    *)
(***************************************************************************)
EXTENDS LockFreeRingBuffer

CONSTANT ItemsOf  \* ItemsOf[t]: the items producer t enqueues

ASSUME HistAssumption == Consumers # {}

VARIABLES
    active,     \* the consumers that ever call
    wasEmpty,   \* at some instant of the current dequeue nothing was published
    refused     \* the consumers whose last call returned nothing without reason

histVars == <<active, wasEmpty, refused>>

Empty == published = readIndex

Single == \E t \in Consumers : active = {t}

HistInit ==
    /\ Init
    /\ active \in {Consumers} \cup {{CHOOSE t \in Consumers : TRUE}}
    /\ wasEmpty = {}
    /\ refused = {}

\* A dequeue returns nothing when it goes back to idle without having claimed.
RefusedNow(t) == pc[t] \in {"loadRead", "recheckRead"} /\ pc'[t] = "idle"

HistNext ==
    /\ Next
    /\ UNCHANGED active
    /\ \A t \in Consumers \ active : pc'[t] = "idle"
    /\ \A t \in Producers : held'[t] \in ItemsOf[t] \cup {NoItem}
    /\ wasEmpty' = {t \in active :
         Single /\ pc'[t] # "idle" /\ (Empty' \/ Empty \/ (pc[t] # "idle" /\ t \in wasEmpty))}
    /\ refused' = {t \in active : Single /\ RefusedNow(t) /\ t \notin wasEmpty}

HistSpec == HistInit /\ [][HistNext]_<<vars, histVars>>

HistFairSpec == HistSpec /\ Fairness

\* dequeue "returns a value-initialized ItemType if the buffer is empty": the
\* dequeue of a single consumer that returns nothing saw an instant at which
\* nothing was published.
RefusedOnlyWhenEmpty == refused = {}
=============================================================================
