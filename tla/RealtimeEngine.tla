--------------------------- MODULE RealtimeEngine ---------------------------
(***************************************************************************)
(* RealTimeEngine of aurora-realtime-engine: one host callback is cut into *)
(* fixed blocks, each rendered, delayed per speaker and interleaved.  One  *)
(* action is one process_interleaved; the renderer and the delay processor *)
(* are external and may refuse any block.                                  *)
(*                                                                         *)
(* Abstraction: a sample is the position of the source it comes from, 0 is *)
(* silence; the mono downmix, the gains and the object's position are left *)
(* out.  Speed of sound and sample rate are one, so a delay is the         *)
(* difference of two distances.  The host brings the frames of a callback  *)
(* refused for its input again, as the frames were not taken; frames of a  *)
(* callback that failed later are gone.                                    *)
(***************************************************************************)
EXTENDS Naturals, SequencesExt, Functions

CONSTANTS BlockSize, Speakers, Distances,
          DynamicCapacity,   \* CURRENT_DYNAMIC_DELAY_CAPACITY_SAMPLES
          Processors,        \* delay capacities of the processors on offer
          MaxFrames,         \* frames of a host callback
          MaxCallbacks,      \* callbacks of the model
          Buckets, Percentile \* TIMING_HISTOGRAM_BUCKETS and 95

VARIABLES engine,   \* RealTimeEngine, NoEngine before it is built
          source,   \* position of the next frame the host brings
          output    \* what the last callback wrote, per frame the sample of each speaker

reVars == <<engine, source, output>>

NoEngine == [kind |-> "none"]
Silence == [s \in Speakers |-> 0]

Init == engine = NoEngine /\ source = 1 /\ output = <<>>

-----------------------------------------------------------------------------
(* Construction                                                            *)

\* calculate_geometric_delays: the farthest speaker is not delayed.
GeometricDelays(distances) ==
  [s \in Speakers |-> Max({distances[t] : t \in Speakers}) - distances[s]]

\* delay_requirements and the same computation in build_gain and build_pcm.
MaxDelay(delays, geometric, dynamic) ==
  LET longest == Max({delays[s] : s \in Speakers}) + 2
  IN  IF geometric \/ dynamic THEN Max({longest, DynamicCapacity}) ELSE longest

\* validate_delay_processor
ProcessorFits(capacity, required) == capacity >= required

\* build_gain and build_pcm; a PCM renderer has no dynamic delays.
Build(kind, signal, distances, geometric, dynamic, capacity) ==
  LET delays == IF geometric THEN GeometricDelays(distances) ELSE Silence
  IN  /\ engine = NoEngine
      /\ kind = "pcm" => ~dynamic
      /\ ProcessorFits(capacity, MaxDelay(delays, geometric, dynamic))
      /\ engine' = [kind |-> kind, signal |-> signal, moving |-> geometric \/ dynamic,
                    delays |-> delays, capacity |-> capacity, cursor |-> 0, phase |-> 1,
                    impulse |-> FALSE, line |-> <<>>, fault |-> "none",
                    histogram |-> [b \in 1 .. Buckets |-> 0]]
      /\ UNCHANGED <<source, output>>

-----------------------------------------------------------------------------
(* One block                                                               *)

\* fill_mono: the samples of a block and the generator after it.  Test signals advance
\* when they are generated, whatever becomes of the block.
Mono(e, from, frames) ==
  CASE e.signal = "None" -> [i \in 1 .. frames |-> from + i - 1]
    [] e.signal = "Sine" -> [i \in 1 .. frames |-> e.phase + i - 1]
    [] e.signal = "Impulse" -> [i \in 1 .. frames |-> IF i = 1 /\ ~e.impulse THEN 1 ELSE 0]
    [] e.signal = "Silence" -> [i \in 1 .. frames |-> 0]

Filled(e, frames) ==
  [e EXCEPT !.phase = IF e.signal = "Sine" THEN @ + frames ELSE @,
            !.impulse = @ \/ e.signal = "Impulse"]

\* process_planar: every channel is read as far back as its delay says.
Delayed(line, delays, i) ==
  [s \in Speakers |-> IF i - delays[s] >= 1 THEN line[i - delays[s]] ELSE 0]

\* The delay line keeps only what the longest delay can still reach.
Kept(line, capacity) ==
  IF Len(line) > capacity THEN SubSeq(line, Len(line) - capacity + 1, Len(line)) ELSE line

\* process_inner for a block the renderer and the processor accept: the engine after it
\* and the frames it wrote.  render_planar sets the delays the renderer asks for.
ProcessInner(e, from, frames, delays) ==
  LET line == e.line \o Mono(e, from, frames)
      set == IF e.moving /\ e.kind = "gain" THEN delays ELSE e.delays
  IN  [engine |-> [Filled(e, frames) EXCEPT !.line = Kept(line, e.capacity), !.delays = set,
                                            !.cursor = @ + frames],
       frames |-> [i \in 1 .. frames |-> Delayed(line, set, Len(e.line) + i)]]

\* output.chunks_mut(chunk_samples)
Blocks(frames) ==
  [b \in 1 .. (frames + BlockSize - 1) \div BlockSize |->
     Min({BlockSize, frames - (b - 1) * BlockSize})]

\* The blocks before the one that fails, `good' of them.
Process(good, sizes, delays) ==
  FoldLeft(LAMBDA done, size :
             LET block == ProcessInner(done.engine, done.from, size, delays)
             IN  [engine |-> block.engine, from |-> done.from + size,
                  frames |-> done.frames \o block.frames],
           [engine |-> engine, from |-> source, frames |-> <<>>],
           SubSeq(sizes, 1, good))

-----------------------------------------------------------------------------
(* process_interleaved                                                     *)

ShapeValid(frames) ==
  frames > 0 /\ (engine.kind = "pcm" => frames % BlockSize = 0)

\* Mutant: the input is checked block by block, where it is used.
InputOfFirstBlock(frames, available) ==
  engine.signal = "None" => available >= Min({frames, BlockSize})

\* The input of the whole callback is checked before any block is rendered.
InputValid(frames, available) == engine.signal = "None" => available >= frames

\* record_timing puts the callback in a bucket of its duration.
Timed(e, bucket) == [e EXCEPT !.histogram[bucket] = @ + 1]

UpTo(histogram, b) == FoldFunctionOnSet(+, 0, histogram, 1 .. b)

\* Mutant: the threshold is rounded down.
ThresholdDown(total) == (total * Percentile) \div 100

Threshold(total) == (total * Percentile + 99) \div 100

\* histogram_percentile: the bucket whose upper end is reported.
HistogramPercentile(histogram) ==
  Min({b \in 1 .. Buckets : UpTo(histogram, b) >= Threshold(UpTo(histogram, Buckets))})

Faulted(e, fault, frames, bucket) ==
  /\ engine' = Timed([e EXCEPT !.fault = fault], bucket)
  /\ output' = [i \in 1 .. frames |-> Silence]

Refused(frames, available, bucket) ==
  /\ engine # NoEngine
  /\ ~ShapeValid(frames) \/ ~InputValid(frames, available)
  /\ Faulted(engine, IF ShapeValid(frames) THEN "InputBuffer" ELSE "OutputBuffer", frames, bucket)
  /\ UNCHANGED source

\* Blocks the input reaches for.
Covered(sizes, available) ==
  IF engine.signal # "None" THEN Len(sizes)
  ELSE Cardinality({b \in DOMAIN sizes : (b - 1) * BlockSize + sizes[b] <= available})

Callback(frames, available, good, delays, bucket) ==
  LET sizes == Blocks(frames)
      done == Process(good, sizes, delays)
      taken == IF engine.signal = "None" THEN source + frames ELSE source
  IN  /\ engine # NoEngine
      /\ ShapeValid(frames) /\ InputValid(frames, available)
      /\ good <= Covered(sizes, available)
      /\ \A s \in Speakers : delays[s] <= engine.capacity
      /\ \/ /\ good = Len(sizes)
            /\ engine' = Timed(done.engine, bucket)
            /\ output' = done.frames
            /\ source' = taken
         \/ /\ good < Covered(sizes, available)
            /\ \E fault \in {"Renderer", "Dsp"} :
                 Faulted(Filled(done.engine, sizes[good + 1]), fault, frames, bucket)
            /\ source' = taken
         \/ /\ good = Covered(sizes, available) /\ good < Len(sizes)
            /\ Faulted(done.engine, "InputBuffer", frames, bucket)
            /\ UNCHANGED source

Callbacks == IF engine = NoEngine THEN 0 ELSE UpTo(engine.histogram, Buckets)

Next ==
  \/ \E kind \in {"gain", "pcm"}, signal \in {"None", "Sine", "Impulse", "Silence"},
        distances \in Distances, geometric, dynamic \in BOOLEAN, capacity \in Processors :
       Build(kind, signal, distances, geometric, dynamic, capacity)
  \/ /\ Callbacks < MaxCallbacks
     /\ \E frames, available \in 0 .. MaxFrames, bucket \in 1 .. Buckets :
          \/ Refused(frames, available, bucket)
          \/ \E good \in 0 .. MaxFrames, distances \in Distances :
               Callback(frames, available, good, GeometricDelays(distances), bucket)

Spec == Init /\ [][Next]_reVars

-----------------------------------------------------------------------------
TypeOK ==
  /\ source \in 1 .. MaxCallbacks * MaxFrames + 1
  /\ \A i \in DOMAIN output : output[i] \in [Speakers -> 0 .. MaxCallbacks * MaxFrames]
  /\ engine # NoEngine =>
       /\ engine.fault \in {"none", "Renderer", "Dsp", "InputBuffer", "OutputBuffer"}
       /\ \A s \in Speakers : engine.delays[s] <= engine.capacity

\* What was given to the delay line is never given to it again, although a callback may
\* fail in any of its blocks and the host brings the frames of a refused one again
\* (process_interleaved: "A later short block must not replay its prefix").
NoReplay ==
  engine # NoEngine =>
    \A i, j \in DOMAIN engine.line :
      i < j /\ engine.line[i] # 0 /\ engine.line[j] # 0 => engine.line[i] < engine.line[j]

\* The reported percentile is the lowest bucket that holds the percentage it promises.
PercentileExact ==
  Callbacks > 0 =>
    LET p == HistogramPercentile(engine.histogram)
    IN  /\ UpTo(engine.histogram, p) * 100 >= Callbacks * Percentile
        /\ UpTo(engine.histogram, p - 1) * 100 < Callbacks * Percentile
=============================================================================
