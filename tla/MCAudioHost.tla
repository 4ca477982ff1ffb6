---------------------------- MODULE MCAudioHost ----------------------------
(***************************************************************************)
(* The programs on the audio host: the real-time engine, its output DSP,   *)
(* the command that runs it and accepts the run, the duplex simulation and *)
(* the campaigns built on it, and the offline renderer with its CamillaDSP *)
(* process.  They share no state, and each property is about one of them,  *)
(* so in every behaviour the program that `focus' names moves alone.       *)
(***************************************************************************)
EXTENDS RealtimeEngine, TLC

VARIABLES focus,
          sim, script,
          command, metrics, durations, counters, stored,
          chain, controls, heard, fed,
          file, processed, offline, child, temp, commands,
          options, run, reports, ran, campaigns

simVars == <<sim, script>>
commandVars == <<command, metrics, durations, counters, stored>>
dspVars == <<chain, controls, heard, fed>>
offlineVars == <<file, processed, offline, child, temp, commands>>
campaignVars == <<options, run, reports, ran, campaigns>>

-----------------------------------------------------------------------------
(* The engine: one layout with both speakers at the same distance and one  *)
(* with a nearer speaker, callbacks of up to a block and a half.           *)

MCDistances == {[s \in Speakers |-> 1], ("l" :> 1 @@ "r" :> 2)}

-----------------------------------------------------------------------------
(* The simulation: an early fault of each recoverable kind, followed by a  *)
(* second one that meets the outage or comes after it.                     *)

Scripted(at, action, duration, value) ==
  [at |-> at, action |-> action, duration |-> duration, value |-> value]
Policy(first, second, random) == [first |-> first, second |-> second, random |-> random]

MCScripts ==
  {<<Scripted(2, "OutputLoss", 0, 0), Scripted(1, "ClockJump", 4, 2)>>,
   <<Scripted(2, "ClockJump", 1, -1), Scripted(1, "OutputLoss", 4, 0)>>,
   <<Scripted(2, "FormatChange", 3, 0), Scripted(1, "InputCallbackStall", 2, 0)>>,
   <<Scripted(2, "ClockJump", 1, -1), Scripted(1, "CallbackBurst", 0, 2)>>,
   <<Scripted(2, "FormatChange", 3, 0), Scripted(1, "CallbackSizeChange", 0, 1)>>}

MCPolicies == {Policy(2, 2, FALSE), Policy(1, 2, TRUE)}

-----------------------------------------------------------------------------
(* The command: four buckets up to the budget and a callback beyond it;    *)
(* limits below the whole budget.                                          *)

Command == INSTANCE RealtimeCommand WITH Buckets <- 4, Percentile <- 60, MaxDuration <- 5,
             MaxCallbacks <- 3, Limits <- {2, 3}, LatencyLimits <- {1, 3}, Latency <- 2

-----------------------------------------------------------------------------
(* The output DSP: a quiet, a loud and a middle frame; no calibration, and *)
(* one with the longest delay.                                             *)

Dsp == INSTANCE OutputDsp WITH Channels <- {"L", "R"}, MaxCalibration <- 2, MaxLipsync <- 1,
         FadeFrames <- 2, Unity <- 8, Ceiling <- 5, Release <- 2, Levels <- <<4, 12, 6>>,
         Calibrations <- {[c \in {"L", "R"} |-> 0], "L" :> 2 @@ "R" :> 1},
         Gains <- {8}, MaxFed <- 4

-----------------------------------------------------------------------------
(* Offline scenes: 7.1 in a shuffled order and with a side speaker off;    *)
(* stereo that is complete, incomplete, with a foreign role, with the      *)
(* first or all of its speakers off; and custom layouts.                   *)

Scene(layout, roles, off) ==
  [layout |-> layout, block |-> 2,
   speakers |-> [i \in DOMAIN roles |-> [role |-> roles[i], enabled |-> roles[i] \notin off,
                                        delay |-> IF roles[i] \in off THEN 0 ELSE i]]]
MCScenes ==
  {Scene("seven_one", <<"SBR", "FL", "SL", "FR", "FC", "LFE", "SR", "SBL">>, {"SL"}),
   Scene("stereo", <<"FR", "FL", "FC">>, {}), Scene("stereo", <<"FR", "FL", "FC">>, {"FL"}),
   Scene("stereo", <<"FR", "FL", "FC">>, {"FR", "FL"}), Scene("stereo", <<"FL">>, {}),
   Scene("stereo", <<"FL", "FR", "x">>, {}), Scene("custom", <<"x", "y">>, {"y"}),
   Scene("custom", <<"x", "FL">>, {})}

Entry(channel, delay, mute, filters) ==
  [channel |-> channel, gain |-> "g", mute |-> mute, delay |-> delay, filters |-> filters,
   valid |-> TRUE]
Config(count, entries) ==
  [rate |-> 48, chunk |-> 1, channel_count |-> count, channels |-> entries]
MCConfigs ==
  {Config(2, <<Entry(1, 0, FALSE, <<"hp">>)>>),
   Config(2, <<Entry(1, 0, FALSE, <<"hp">>), Entry(1, 0, TRUE, <<>>)>>),
   Config(8, <<Entry(4, 0, FALSE, <<"hp">>), Entry(7, 1, TRUE, <<"eq">>)>>),
   Config(2, <<[Entry(1, 0, FALSE, <<>>) EXCEPT !.valid = FALSE]>>)}

WavFile(channels, format, rate) == [channels |-> channels, format |-> format, rate |-> rate]

Offline == INSTANCE OfflineAudio WITH Scenes <- MCScenes, Configs <- MCConfigs, FileFrames <- 1,
             MonoFiles <- {WavFile(1, "int16", 48), WavFile(2, "int16", 48), WavFile(1, "int8x", 48),
                           WavFile(1, "float32", 44)},
             MaxData <- 100, MaxCommands <- 3, output <- processed, command <- offline

-----------------------------------------------------------------------------
(* Campaigns of two shards and one, with and without repeats and fixtures; *)
(* per scenario a good answer, a different one and a bad one.              *)

Campaign(level, scenarios, shards, repeat, legacy) ==
  [level |-> level, scenarios |-> scenarios, shard_count |-> shards, repeat |-> repeat,
   legacy |-> legacy]
Lifecycle == {<<"Stopped", "Starting">>, <<"Starting", "Running">>, <<"Running", "Stopping">>,
              <<"Stopping", "Stopped">>}
Duplex(error, transitions, checksum) ==
  [error |-> error, finite |-> TRUE, bounded |-> TRUE, final |-> "Stopped",
   transitions |-> transitions, checksum |-> checksum, baseline |-> "x"]

Simulation == INSTANCE SimulationAssurance WITH
  EndTicks <- 7, Capacity <- 4, Unity <- 3, Jitter <- 1, Scripts <- MCScripts, Policies <- MCPolicies,
  Options <- {Campaign("standard", 3, 2, 2, FALSE), Campaign("smoke", 5, 2, 1, FALSE),
              Campaign("soak", 1, 1, 2, TRUE)},
  StartSeed <- 0, SoakHours <- 1, FailureLimit <- 1, Fixtures <- 1, MaxCampaigns <- 2,
  DuplexReports <- {Duplex(FALSE, Lifecycle \union {<<"Running", "Faulted">>}, "x"),
                    Duplex(FALSE, Lifecycle \union {<<"Running", "Faulted">>}, "y"),
                    Duplex(TRUE, {}, "x")},
  RoutingReports <- {[error |-> FALSE, leaks |-> l, finite |-> TRUE, checksum |-> "x"] :
                       l \in BOOLEAN},
  RendererReports <- {[error |-> FALSE, pointDiffers |-> FALSE, finite |-> TRUE, unitPower |-> u,
                       spread |-> TRUE, permutedDiffers |-> FALSE, checksum |-> "x"] :
                        u \in BOOLEAN},
  ProbeReports <- {[refused |-> x, finite |-> TRUE, checksum |-> "x"] : x \in BOOLEAN},
  disk <- reports

-----------------------------------------------------------------------------
(* A program that has several initial states is in one of them, or in    *)
(* none, when it is not the one in focus.                                  *)

MCInit ==
  /\ focus \in {"engine", "sim", "command", "dsp", "offline", "campaign"}
  /\ Init /\ Offline!Init
  /\ Command!Init
  /\ focus # "command" => command.limit = 2 /\ command.latency = 1 /\ ~command.signal
  /\ Dsp!Init
  /\ focus # "dsp" => controls.requested = 0
  /\ IF focus = "sim" THEN Simulation!Init ELSE sim = NoEngine /\ script = <<>>
  /\ IF focus = "campaign" THEN Simulation!CampaignInit
     ELSE options = NoEngine /\ run = NoEngine /\ reports = <<>> /\ ran = <<>> /\ campaigns = 0

EngineMoves ==
  /\ focus = "engine" /\ Next
  /\ UNCHANGED <<focus, simVars, commandVars, dspVars, offlineVars, campaignVars>>
SimulationMoves ==
  /\ focus = "sim" /\ Simulation!Next
  /\ UNCHANGED <<focus, reVars, commandVars, dspVars, offlineVars, campaignVars>>
CommandMoves ==
  /\ focus = "command" /\ Command!Next
  /\ UNCHANGED <<focus, reVars, simVars, dspVars, offlineVars, campaignVars>>
DspMoves ==
  /\ focus = "dsp" /\ Dsp!Next
  /\ UNCHANGED <<focus, reVars, simVars, commandVars, offlineVars, campaignVars>>
OfflineMoves ==
  /\ focus = "offline" /\ Offline!Next
  /\ UNCHANGED <<focus, reVars, simVars, commandVars, dspVars, campaignVars>>
CampaignMoves ==
  /\ focus = "campaign" /\ Simulation!CampaignNext
  /\ UNCHANGED <<focus, reVars, simVars, commandVars, dspVars, offlineVars>>

MCNext == \/ EngineMoves \/ SimulationMoves \/ CommandMoves
          \/ DspMoves \/ OfflineMoves \/ CampaignMoves

MCSpec ==
  MCInit /\ [][MCNext]_<<focus, reVars, simVars, commandVars, dspVars, offlineVars,
                         campaignVars>>

-----------------------------------------------------------------------------
\* process_interleaved and OutputDsp: no frame comes out twice or out of its order, one that
\* comes out is delayed by what its speaker is delayed by, and the limiter leaves the balance
\* of the channels alone.
SamplesInPlace == TypeOK /\ NoReplay /\ Dsp!DelayedExactly /\ Dsp!ImageKept

\* run_realtime: an accepted run kept its limit, and the engine's percentile is the lowest
\* bucket that holds the percentage it promises.
AcceptedKeptBudget == Command!AcceptedKeptBudget /\ PercentileExact

\* render_mono_to_scene, process_wav_for_layout: a chain is on the channel of the role it was
\* configured for, and filters that role's audio unless a speaker up to it was disabled.
DspOnItsRole == Offline!DspOnItsRole

\* run_camilladsp: nothing writes to the output file after the command has answered.
AnswerIsFinal == Offline!AnswerIsFinal

\* run_duplex_simulation and run_campaign: every scripted disturbance that may end does end;
\* shards cover the campaign, a verdict is of all repeats, and the failures on disk are the
\* report's.
SimulationSound ==
  /\ focus = "sim" => Simulation!TypeOK /\ Simulation!DisturbanceEnds
  /\ focus = "campaign" =>
       Simulation!ShardsComplete /\ Simulation!VerdictOfAllRepeats /\ Simulation!FailuresOfReport
=============================================================================
