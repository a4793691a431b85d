------------------------- MODULE WeightEventsProps -------------------------
(***************************************************************************)
(* What a weight trace says of the spikes it was made from, against        *)
(* definitions that know nothing of the order in which the generators go   *)
(* through them.                                                           *)
(***************************************************************************)
EXTENDS WeightEvents, Layout

SpikesOf(result) == raster[SampleIndices[result.local]]

(* The output points of a tile at which a row of the kernel meets a spike. *)
Meeting(spikes, tile, row) ==
  {point \in Span(tile, "T") \X Span(tile, "HO") \X Span(tile, "WO") :
     Meets(spikes, tile, row, point[1], point[2], point[3])}

Rows(tile) == ToSet(Kernel(tile))

BitsAt(spikes, tile, point) == {row \in Rows(tile) : point \in Meeting(spikes, tile, row)}

RankedBelow(spikes, tile, p, q) ==
  LET b == BitsAt(spikes, tile, p)  c == BitsAt(spikes, tile, q)
  IN  \/ Cardinality(b) < Cardinality(c)
      \/ /\ Cardinality(b) = Cardinality(c)
         /\ p[2] < q[2] \/ (p[2] = q[2] /\ p[3] < q[3])

(* "pick the one processed MOST RECENTLY (== largest (popcount,            *)
(* original_index))", ProsperityGen.h:14-16.                               *)
ReusedAt(spikes, tile, point) ==
  LET points == {p \in Span(tile, "T") \X Span(tile, "HO") \X Span(tile, "WO") :
                   /\ RankedBelow(spikes, tile, p, point)
                   /\ BitsAt(spikes, tile, p) \subseteq BitsAt(spikes, tile, point)}
  IN  IF points = {} THEN {}
      ELSE BitsAt(spikes, tile,
                  CHOOSE p \in points : \A q \in points \ {p} : RankedBelow(spikes, tile, q, p))

(* How often a row of weights is read. *)
ReadsOwed(arch, spikes, tile, row) ==
  LET points == Meeting(spikes, tile, row)
  IN  CASE arch = "spinalflow"       -> Cardinality(points)
        [] arch \in {"loas", "ptb"}  -> IF points = {} THEN 0 ELSE 1
        [] arch = "gustavsnn"        -> Cardinality({point[2] : point \in points})
        [] arch = "prosperity"       ->
             Cardinality({point \in points : row \notin ReusedAt(spikes, tile, point)})

AddressesOf(result) ==
  FlattenSeq([k \in DOMAIN result.ticks |-> result.ticks[k].addresses])

(* In every result, the last one written being looked at:                  *)
(* every row of weights is read as often as the spikes of the tile call    *)
(* for under the accelerator's own rule, none for a spike in the padding   *)
(* or of another tile: once a spike (SpinalFlow), once if it fires at all  *)
(* (LoAS, PTB), once an output row (GustavSNN), once a pixel whose result  *)
(* is not got from the largest earlier subset (Prosperity).  Reads beyond  *)
(* the tile's kernel or output channels there are none.                    *)
ReadsMatchTheSpikes ==
  results # <<>> =>
    LET result == Last(results)  tile == TileOf(result)  addresses == AddressesOf(result)
        Times(row) == {i \in DOMAIN addresses : addresses[i] = Address(row, tile)}
    IN  /\ \A row \in Rows(tile) :
             Cardinality(Times(row)) = ReadsOwed(job.arch, SpikesOf(result), tile, row)
        /\ DOMAIN addresses = UNION {Times(row) : row \in Rows(tile)}

(* The fewest groups lines can be merged into, two neighbours at most that *)
(* never fire together.                                                    *)
FewestGroups(spikes, tile) ==
  LET lines == Lines(spikes, tile)
      pairs == {i \in 1 .. Len(lines) - 1 :
                  Firing(spikes, tile, lines[i]) \cap Firing(spikes, tile, lines[i + 1]) = {}}
  IN  Len(lines) - Max({Cardinality(S) : S \in {T \in SUBSET pairs : \A i \in T : i + 1 \notin T}})

Width(arch) == IF arch = "gustavsnn" THEN PeCountMax ELSE 1

(* The cycles of a tile account for its reads: no cycle has more reads     *)
(* than there are PEs to make them, and none passes without one, also      *)
(* where one wave of GustavSNN ends and the next begins; PTB's cycles are  *)
(* those of its pipeline over the fewest groups its lines can form, if     *)
(* that is longer than reading them.                                       *)
CyclesAccountForReads ==
  results # <<>> =>
    LET result == Last(results)  tile == TileOf(result)
        busy   == {result.ticks[k].tick : k \in DOMAIN result.ticks}
        n      == Len(AddressesOf(result))
        idle   == job.arch = "ptb"
    IN  /\ busy = 0 .. (IF idle THEN n ELSE result.mac) - 1
        /\ \A k \in DOMAIN result.ticks :
             Len(result.ticks[k].addresses) \in 1 .. Width(job.arch)
        /\ idle => result.mac =
             Max({n, ComputeCycleCount(FewestGroups(SpikesOf(result), tile), tile)})

(* The cycles at which some core reads, over all steps. *)
Moments(local) ==
  UNION {{<<TileOf(results[r]).dram, TileOf(results[r]).noc, results[r].ticks[k].tick>> :
            k \in DOMAIN results[r].ticks} :
         r \in {q \in DOMAIN results : results[q].local = local}}

Earlier(a, b) ==
  \/ a[1] < b[1] \/ (a[1] = b[1] /\ a[2] < b[2])
  \/ a[1] = b[1] /\ a[2] = b[2] /\ a[3] < b[3]

(* What the cores read at a moment. *)
ReadAt(local, moment) ==
  UNION {LET result == results[r]  tile == TileOf(result)
         IN  {[core |-> tile.core, addresses |-> result.ticks[k].addresses] :
                k \in {l \in DOMAIN result.ticks :
                         <<tile.dram, tile.noc, result.ticks[l].tick>> = moment}} :
         r \in {q \in DOMAIN results : results[q].local = local}}

(* The replay of a sample gets one tick for every cycle at which some core *)
(* of some step reads, in the order of DRAM steps, mesh steps and cycles,  *)
(* with the cores in ascending order and each core's own reads: grouping   *)
(* by step, merging the cores and leaving the tiles out (tracegen.py:170,  *)
(* native_bridge.py:111) lose no read, double none and give none to        *)
(* another core, sample or moment.                                         *)
ReplayGetsEveryRead ==
  \A local \in DOMAIN traces :
    LET ticks   == TickData(traces[local])
        moments == SortedBy(Moments(local), Earlier)
    IN  /\ Len(ticks) = Len(moments)
        /\ \A k \in DOMAIN ticks :
             /\ ToSet(ticks[k]) = ReadAt(local, moments[k])
             /\ \A c, d \in DOMAIN ticks[k] : c < d => ticks[k][c].core < ticks[k][d].core
        /\ \A s \in DOMAIN traces[local].tiles :
             LET step == traces[local].tiles[s]
             IN  step.mac = Max({results[r].mac : r \in {q \in DOMAIN results :
                              /\ results[q].local = local
                              /\ TileOf(results[q]).dram = step.dram /\ TileOf(results[q]).noc = step.noc}})

(* workload_dims of the layer. *)
Shape ==
  LET Extent(dim) == FoldLeft(LAMBDA n, prime : n * prime, 1, job.layer[dim])
  IN  [kh |-> Extent("KH"), kw |-> Extent("KW"), cin |-> Extent("CIN"), cout |-> Extent("COUT")]

LineBefore(a, b) ==
  \/ a.kh < b.kh
  \/ a.kh = b.kh /\ a.kw < b.kw
  \/ a.kh = b.kh /\ a.kw = b.kw /\ a.cin < b.cin
  \/ a.kh = b.kh /\ a.kw = b.kw /\ a.cin = b.cin /\ a.cout < b.cout

Block(n, size) == n * size .. (n + 1) * size - 1

(* The lines that hold some weight of a read. *)
LinesRead(shape, a) ==
  {line \in CacheLines(shape) :
     /\ line.kh = a.kh /\ line.kw = a.kw /\ a.cin \in Block(line.cin, CinBlock)
     /\ (a.coutStart .. a.coutEnd - 1) \cap Block(line.cout, CoutBlock) # {}}

(* Every read of the replay asks for the lines that hold its weights,      *)
(* each once and in ascending order, and asks for them by their number     *)
(* among all lines of the layer, whichever tile, core or sample it is of:  *)
(* a line has one tag and a tag one line, and none is beyond the layer.    *)
(* The last block of a dimension need not be full, and the channels of a   *)
(* core may begin and end within a block (layout.h:113-126).               *)
RequestsNameTheLines ==
  LET shape  == Shape
      number == [line \in CacheLines(shape) |->
                   Cardinality({other \in CacheLines(shape) : LineBefore(other, line)})]
  IN  \A local \in DOMAIN traces :
        LET ticks == TickData(traces[local])
        IN  \A k \in DOMAIN ticks : \A c \in DOMAIN ticks[k] :
              LET addresses == ticks[k][c].addresses
              IN  PackedTags(shape, addresses) =
                    FlattenSeq([i \in DOMAIN addresses |->
                      Sorted({number[line] : line \in LinesRead(shape, addresses[i])})])
=============================================================================
