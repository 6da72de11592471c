-------------------------------- MODULE Trace --------------------------------
(***************************************************************************)
(* One transaction followed through every layer Luca keeps: what the chain   *)
(* and the transfer feed say of it, what was stored, and what became of it   *)
(* in the books, put together into movements and judged one by one.  Evidence *)
(* is of one source key of one tracked wallet; a self-transfer has one         *)
(* movement per direction.                                                  *)
(***************************************************************************)
EXTENDS Figures

VARIABLES evidence, lost

vars == <<evidence, lost>>

Evidence == [
  key: {"log", "external", "internal", "gas"},
  checked: BOOLEAN,    \* there is a key to ask the chain with
  receipt: {"success", "failed", "missing"},
  tracked: BOOLEAN,    \* the asset is ETH, USDC or BNKR
  chain: SUBSET Dirs, feed: SUBSET Dirs, raw: BOOLEAN, events: SUBSET Dirs,
  supported: BOOLEAN, label: Labels \cup {None}, failed: BOOLEAN, usd: SUBSET {1}]

(* What the answers can be: a failed transaction moves its fee and nothing   *)
(* else, a fee has no feed entry, and ETH a contract sent inside is seen by   *)
(* the feed alone.                                                         *)
Possible(e) ==
  /\ e.chain # {} => e.checked /\ e.tracked /\ e.receipt # "missing" /\ e.key # "internal"
  /\ e.chain # {} /\ e.receipt = "failed" => e.key = "gas"
  /\ e.feed # {} => e.checked /\ e.receipt # "missing" /\ e.key # "gas"
  /\ e.key = "gas" => e.tracked /\ e.chain \subseteq {"out"} /\ e.events \subseteq {"out"}
  /\ e.failed => e.label = "unknown"

-----------------------------------------------------------------------------
(* The movements: what the chain and the feed report, a stored record they do *)
(* not, and events.  A record alone has no direction until an event gives one. *)
Reported(e) == e.chain \cup e.feed \cup IF e.key = "gas" /\ e.raw THEN {"out"} ELSE {}
Movements(e) ==
  LET known == Reported(e) \cup e.events
  IN IF known = {} /\ e.raw THEN {"unknown"} ELSE known

OnChain(e, d) ==
  IF e.key = "internal" \/ ~e.checked THEN "unknown" ELSE IF d \in e.chain THEN "yes" ELSE "no"
Event(e, d) == [dir |-> d, label |-> e.label, failed |-> e.failed, usd |-> e.usd]
Delivered(e, d) ==
  IF d \in e.feed THEN "yes"
  ELSE IF e.key # "gas" /\ e.checked /\ e.receipt # "missing" THEN "no" ELSE "unknown"

(* Booked in a total, and nothing to count there yet. *)
Unpaid(e, d) ==
  LET f == FigureOf(Event(e, d)) IN f \in Totals /\ Contribution(f, Event(e, d)) = {}

(* Where a movement stopped. *)
(* A bug: a movement with no price yet passes for one in the totals. *)
LostUnpriced(e, d) ==
  LET booked == d \in e.events
  IN IF OnChain(e, d) = "no" THEN IF booked /\ e.supported THEN "chain" ELSE None
     ELSE IF ~e.tracked /\ OnChain(e, d) = "yes" THEN None
     ELSE IF ~e.raw /\ ~booked THEN IF Delivered(e, d) = "no" THEN "provider" ELSE "raw"
     ELSE IF ~booked THEN "normalized" ELSE IF ~e.supported THEN "identity"
     ELSE IF e.label = None THEN "classification" ELSE None
LostAt(e, d) ==
  LET booked == d \in e.events
  IN IF OnChain(e, d) = "no" THEN IF booked /\ e.supported THEN "chain" ELSE None
     ELSE IF ~e.tracked /\ OnChain(e, d) = "yes" THEN None
     ELSE IF ~e.raw /\ ~booked THEN IF Delivered(e, d) = "no" THEN "provider" ELSE "raw"
     ELSE IF ~booked THEN "normalized" ELSE IF ~e.supported THEN "identity"
     ELSE IF e.label = None THEN "classification"
     ELSE IF Unpaid(e, d) THEN "price" ELSE None

(* The verdict of the transaction, and what an audit keeps of it. *)
Verdict(e) ==
  IF Movements(e) = {}
  THEN IF e.receipt = "missing" \/ ~e.checked THEN "not_found" ELSE "not_tracked"
  ELSE IF \E d \in Movements(e) : LostAt(e, d) # None THEN "gaps" ELSE "complete"
Missing(layer) == layer \in {"provider", "raw", "normalized", "identity", "chain"}

Init ==
  /\ evidence \in {e \in Evidence : Possible(e)}
  /\ lost = [d \in {} |-> None]
Judge ==
  /\ lost = [d \in {} |-> None] /\ Movements(evidence) # {}
  /\ lost' = [d \in Movements(evidence) |-> LostAt(evidence, d)]
  /\ UNCHANGED evidence
Next == Judge
Spec == Init /\ [][Next]_vars

-----------------------------------------------------------------------------
TypeOK ==
  /\ evidence \in Evidence
  /\ DOMAIN lost \subseteq Dirs \cup {"unknown"}
  /\ \A d \in DOMAIN lost :
       lost[d] \in {None, "chain", "provider", "raw", "normalized", "identity", "classification", "price"}

(* A movement the chain reports passes only if the books have it, under its own *)
(* direction, labeled, and in exactly one place: one figure, or those still to  *)
(* be labeled.  Everything else is named, with the layer it stopped at           *)
(* (trace.ts:14, "names the first layer that lost a movement"; describeTrace's    *)
(* "Every movement reached the books").                                      *)
Judged(d) == d \in DOMAIN lost
NothingSlipsThrough ==
  \A d \in evidence.chain : Judged(d) =>
    (lost[d] = None)
      = /\ d \in evidence.events /\ evidence.supported /\ evidence.label # None
        /\ Cardinality(Places(Event(evidence, d))) = 1
=============================================================================
