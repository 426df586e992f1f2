------------------------- MODULE HousekeepingProps -------------------------
(***************************************************************************)
(* What reads, trims and sweeps promise about the entries.                 *)
(***************************************************************************)
EXTENDS Housekeeping

(* Type correctness of the shared streams (transport.py, _trim_loop).      *)
TypeOK ==
    /\ stream \in [Streams -> Seq(Places)]
    /\ groups \subseteq Streams
    /\ unread \in [Streams -> SUBSET Places]
    /\ owner \in [Streams -> [Places -> Workers \cup {NoOne}]]
    /\ old \in [Streams -> SUBSET Places] /\ late \in [Streams -> SUBSET Places]
    /\ phase \in [Workers -> {"down", "starting", "up"}]
    /\ at \in [Workers -> {"off", "foreign", "queue", "block"} \X (0..Len(Queues))]
    /\ passes \in [Workers -> Nat]
    /\ \A w \in Workers : passes[w] = 0 \/ passes[w] < FairnessEvery
    /\ chore \in [Workers -> {"off", "next", "floor", "trim", "sweep"} \X (0..Len(AllStreams))]
    /\ below \in [Workers -> [Own -> SUBSET Places]]
    /\ waited \in [Workers -> Nat]

(* Every entry of a stream is still to be delivered or in somebody's        *)
(* pending list, from where it can be claimed: none is stranded by a group  *)
(* that starts late, or by a name swept while its worker reads, is busy     *)
(* with one long task or has died (sweep_consumers.lua, transport.py:139,   *)
(* 316-327).                                                                *)
NoneStranded ==
    \A s \in groups : Present(s) \subseteq unread[s] \cup Held(s)

(* "MINID would drop pending work older than the window; the floor prevents *)
(* it" (test_transport.py:170), as far as it does: an entry that was first  *)
(* delivered within retention_ms keeps its record until it is acknowledged, *)
(* however long that takes and whatever happens between the clock reading,  *)
(* the pending summaries and the trims (transport.py:337-350).              *)
PromptIsKept ==
    \A s \in Own : Held(s) \ late[s] \subseteq Present(s)

(* An entry leaves its stream by an acknowledgement or when it is older     *)
(* than retention_ms, though the trim reads the clock once and works        *)
(* through the streams while entries come and go (transport.py:343-350).   *)
OnlyOldIsTrimmed ==
    [][\A s \in Own : \A i \in Present(s) :
          i \notin Present(s)' => \/ i \in old[s]
                                 \/ (owner[s][i] # NoOne /\ owner'[s][i] = NoOne)]_vars

(* The test's words as they stand.                                          *)
PendingIsKept == \A s \in Own : Held(s) \subseteq Present(s)

(* The lowest queue is asked in one of every fairness_every passes over the *)
(* own queues, however busy those above it are and however many passes end *)
(* early; a failed read may cost it its turn, and passes that a foreign     *)
(* stream satisfies do not count (transport.py:170-207).  The queues        *)
(* between the highest and the lowest have no such turn.                    *)
LowestIsAsked ==
    \A w \in Workers : FairnessEvery > 0 => waited[w] < FairnessEvery
=============================================================================
