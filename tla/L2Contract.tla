----------------------------- MODULE L2Contract -----------------------------
(***************************************************************************)
(* What the shared L2 promises its cores, with every mechanism left out:   *)
(* no recency order, no stamps, no L1s, no order of fills.                 *)
(*                                                                         *)
(*  - Within a tick every lookup is answered from the lines L2 held when   *)
(*    the tick began; the tick's own fills become visible only afterwards. *)
(*  - Only a line that was asked for, or the neighbour of one that was     *)
(*    asked for and missing, is ever brought in.                           *)
(*  - A fill displaces at most one line, of its own set, and only when the *)
(*    set is full.  A line read as a hit this tick is displaced only if    *)
(*    every line of its set was.                                           *)
(*  - A tick ends only when everything it owed has been filled.            *)
(***************************************************************************)
EXTENDS Naturals, FiniteSets

CONSTANTS
  Tags,        \* line tags
  SetOf,       \* tag -> index of the set it belongs to
  Neighbours,  \* tag -> the tags a miss of it may prefetch, at most one
  Capacity     \* lines per set

VARIABLES
  protecting,  \* same-tick pinning is on
  prefetching, \* the cout prefetch is on
  filling,     \* the tick is past its last lookup
  lines,       \* the resident lines
  protected,   \* lines read as a hit this tick
  owed,        \* lines this tick must still fill
  hits, accesses

contractVars ==
  <<protecting, prefetching, filling, lines, protected, owed, hits, accesses>>

LinesOf(s) == {t \in lines : SetOf[t] = s}

ContractInit ==
  /\ protecting \in BOOLEAN /\ prefetching \in BOOLEAN
  /\ filling = FALSE
  /\ lines = {} /\ protected = {} /\ owed = {}
  /\ hits = 0 /\ accesses = 0

AskHit(t) ==
  /\ ~filling
  /\ t \in lines
  /\ hits' = hits + 1 /\ accesses' = accesses + 1
  /\ protected' = IF protecting THEN protected \cup {t} ELSE protected
  /\ owed' = owed \cup {t}
  /\ UNCHANGED <<protecting, prefetching, filling, lines>>

AskMiss(t) ==
  /\ ~filling
  /\ t \notin lines
  /\ accesses' = accesses + 1
  /\ owed' = owed \cup {t} \cup (IF prefetching THEN Neighbours[t] ELSE {})
  /\ UNCHANGED <<protecting, prefetching, filling, lines, protected, hits>>

BeginFills ==
  /\ ~filling /\ filling' = TRUE
  /\ UNCHANGED <<protecting, prefetching, lines, protected, owed, hits, accesses>>

MayGo(v) == v \in protected => LinesOf(SetOf[v]) \subseteq protected

(* A line asked for several times is owed several times: it stays owed     *)
(* until its last fill.                                                    *)
FillOne(t) ==
  /\ filling /\ t \in owed
  /\ owed' \in {owed, owed \ {t}}
  /\ \/ t \in lines /\ UNCHANGED lines
     \/ /\ t \notin lines
        /\ Cardinality(LinesOf(SetOf[t])) < Capacity
        /\ lines' = lines \cup {t}
     \/ /\ t \notin lines
        /\ Cardinality(LinesOf(SetOf[t])) = Capacity
        /\ \E v \in LinesOf(SetOf[t]) :
             MayGo(v) /\ lines' = (lines \ {v}) \cup {t}
  /\ UNCHANGED <<protecting, prefetching, filling, protected, hits, accesses>>

EndFills ==
  /\ filling /\ owed = {}
  /\ filling' = FALSE /\ protected' = {}
  /\ UNCHANGED <<protecting, prefetching, lines, owed, hits, accesses>>

ContractNext ==
  \/ \E t \in Tags : AskHit(t) \/ AskMiss(t) \/ FillOne(t)
  \/ BeginFills \/ EndFills

ContractSpec == ContractInit /\ [][ContractNext]_contractVars
=============================================================================
