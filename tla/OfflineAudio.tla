---------------------------- MODULE OfflineAudio ----------------------------
(***************************************************************************)
(* `aurora render' and `aurora process': a mono file is rendered to the    *)
(* speakers of a scene and written as a multichannel WAV file, and an      *)
(* external CamillaDSP process turns that file into a processed one while  *)
(* the command polls it under a timeout.                                   *)
(*                                                                         *)
(* Channel order is the data that matters.  Aurora numbers channels in its *)
(* canonical order, a WAV file stores them in speaker-mask order, and a    *)
(* CamillaDSP configuration counts the channels of the file.  Audio is the *)
(* role of the speaker whose gain it has; a filter chain is the sequence   *)
(* of its stages.                                                          *)
(***************************************************************************)
EXTENDS Naturals, Sequences, FiniteSets, SequencesExt

CONSTANTS Scenes,      \* [layout, speakers: Seq([role, delay, enabled]), block]
          MonoFiles,   \* [channels, format, rate]: inputs of `render'
          Configs,     \* AuroraDspConfig documents
          FileFrames,  \* frames of every file
          MaxData,     \* u32::MAX, in samples; also the length of a streaming header
          MaxCommands

VARIABLES file,     \* the rendered WAV file
          output,   \* the processed WAV file
          command,  \* the `process' command of the control thread
          child,    \* the CamillaDSP process: none, running, blocked, success, failure
          temp,     \* directories left in the system's temporary directory
          commands

oaVars == <<file, output, command, child, temp, commands>>

-----------------------------------------------------------------------------
(* Roles and layouts                                                       *)

Surround71 == <<"FL", "FR", "FC", "LFE", "SL", "SR", "SBL", "SBR">>

CanonicalRoles ==
  [stereo |-> <<"FL", "FR">>,
   five_one |-> SubSeq(Surround71, 1, 6),
   seven_one |-> Surround71,
   five_one_two |-> SubSeq(Surround71, 1, 6) \o <<"TFL", "TFR">>,
   seven_one_four |-> Surround71 \o <<"TFL", "TFR", "TRL", "TRR">>,
   custom |-> <<>>]

\* Exponent of the role's bit; a custom role has none.
WavChannelMaskBit ==
  [FL |-> 0, FR |-> 1, FC |-> 2, LFE |-> 3, SBL |-> 4, SBR |-> 5, SL |-> 9, SR |-> 10,
   TFL |-> 12, TFR |-> 14, TRL |-> 15, TRR |-> 17]

Labelled(role) == role \in DOMAIN WavChannelMaskBit

IsStandard(layout) == layout # "custom"

-----------------------------------------------------------------------------
(* Scenes                                                                  *)

NoScene == [layout |-> "custom", speakers |-> <<>>, block |-> 0]

RolesOf(speakers) == [i \in DOMAIN speakers |-> speakers[i].role]

ValidRoles(scene) ==
  LET roles == RolesOf(scene.speakers)
  IN /\ IsInjective(roles)
     /\ IsStandard(scene.layout) =>
          /\ \A role \in ToSet(roles) : Labelled(role)
          /\ ToSet(CanonicalRoles[scene.layout]) \subseteq ToSet(roles)

ValidScene(scene) == /\ scene.block > 0
                     /\ \E i \in DOMAIN scene.speakers : scene.speakers[i].enabled
                     /\ ValidRoles(scene)

\* The speakers of a standard layout in canonical order; others of the scene are dropped.
OrderedSpeakers(scene) ==
  IF ~IsStandard(scene.layout) THEN scene.speakers
  ELSE LET of(role) == SelectInSeq(scene.speakers, LAMBDA s : s.role = role)
       IN [i \in DOMAIN CanonicalRoles[scene.layout] |->
             scene.speakers[of(CanonicalRoles[scene.layout][i])]]

-----------------------------------------------------------------------------
(* Reading and writing WAV files                                           *)

Readable(wav) == /\ wav.channels > 0
                 /\ wav.format \in {"float32", "int16", "int24", "int32"}

\* wav_channel_mask: every role has a bit and no two the same.
Maskable(roles) == IsInjective(roles) /\ \A role \in ToSet(roles) : Labelled(role)

Unlabelled(roles) == \A i \in DOMAIN roles : ~Labelled(roles[i])

\* Channel of a file: [role, audio].  The writer sorts by mask bit; an unlabelled export
\* keeps the caller's order.
FileOrder(channels) ==
  IF Unlabelled(RolesOf(channels)) THEN channels
  ELSE SortSeq(channels, LAMBDA a, b : WavChannelMaskBit[a.role] < WavChannelMaskBit[b.role])

NoFile == [exists |-> FALSE, scene |-> NoScene, channels |-> <<>>, rate |-> 0]

\* Mutant: the gains are taken in the order of the scene.
RenderInSceneOrder(scene) ==
  LET ordered == OrderedSpeakers(scene)
      played  == SelectSeq(scene.speakers, LAMBDA s : s.enabled)
  IN [i \in DOMAIN ordered |->
        [role |-> ordered[i].role,
         audio |-> IF i <= Len(played) THEN played[i].role ELSE "silence"]]

\* The channels have the roles of all ordered speakers.  The renderer keeps the enabled ones
\* only, and the gain of the i-th of these, delayed or not, goes to channel i: after a
\* disabled speaker a channel carries its successor's audio and the last are silent.
RenderMonoToScene(scene) ==
  LET ordered == OrderedSpeakers(scene)
      played  == SelectSeq(ordered, LAMBDA s : s.enabled)
  IN [i \in DOMAIN ordered |->
        [role |-> ordered[i].role,
         audio |-> IF i <= Len(played) THEN played[i].role ELSE "silence"]]

\* A renderer mode may refuse more; then there is no file either.
RenderOffline(scene, mono) ==
  LET rendered == RenderMonoToScene(scene)
      roles    == RolesOf(rendered)
  IN /\ command.phase = "idle" /\ commands < MaxCommands
     /\ ValidScene(scene) /\ Readable(mono) /\ mono.channels = 1
     /\ \E i \in DOMAIN roles : OrderedSpeakers(scene)[i].enabled
     /\ Unlabelled(roles) \/ Maskable(roles)
     /\ file' = [exists |-> TRUE, scene |-> scene, channels |-> FileOrder(rendered),
                 rate |-> mono.rate]
     /\ commands' = commands + 1
     /\ UNCHANGED <<output, command, child, temp>>

-----------------------------------------------------------------------------
(* The DSP configuration                                                   *)

\* Entry of a configuration: [channel, gain, mute, delay, filters, valid]; channels count
\* from 0.
ValidConfig(config) ==
  /\ config.channel_count > 0 /\ config.rate > 0 /\ config.chunk > 0
  /\ \A i \in DOMAIN config.channels : /\ config.channels[i].channel < config.channel_count
                                       /\ config.channels[i].valid

\* File index of a logical channel: the number of roles of the layout with a lower bit.
WavFileChannelIndex(layout, channel) ==
  LET roles == CanonicalRoles[layout]
      below == {i \in DOMAIN roles :
                  WavChannelMaskBit[roles[i]] < WavChannelMaskBit[roles[channel + 1]]}
  IN Cardinality(below)

\* Fails on a custom layout, another channel count, a channel outside it or named twice.
Remappable(config, layout) ==
  /\ IsStandard(layout) /\ Len(CanonicalRoles[layout]) = config.channel_count
  /\ \A i \in DOMAIN config.channels : config.channels[i].channel < config.channel_count
  /\ \A i, j \in DOMAIN config.channels :
       config.channels[i].channel = config.channels[j].channel => i = j

\* Mutant: the layout-aware entry point passes the logical numbers on.
RemapForgotten(config, layout) == config

RemapConfigForWavLayout(config, layout) ==
  [config EXCEPT !.channels =
     [i \in DOMAIN config.channels |->
        [config.channels[i] EXCEPT !.channel = WavFileChannelIndex(layout, @)]]]

\* prepare_process_geometric_delay: entry c gets the delay of ordered speaker c.
DelayFits(config, scene) ==
  /\ Len(OrderedSpeakers(scene)) = config.channel_count
  /\ \A i \in DOMAIN config.channels :
       config.channels[i].channel < Len(OrderedSpeakers(scene))

GeometricDelay(config, scene) ==
  [config EXCEPT !.channels =
     [i \in DOMAIN config.channels |->
        [config.channels[i] EXCEPT
           !.delay = @ + OrderedSpeakers(scene)[config.channels[i].channel + 1].delay]]]

EffectiveGain(entry) == IF entry.mute THEN "silent" ELSE entry.gain

\* The stages of a channel in pipeline order.
ChannelPipeline(entry) ==
  <<EffectiveGain(entry)>> \o (IF entry.delay > 0 THEN <<"delay">> ELSE <<>>) \o entry.filters

\* Two entries for one channel define the same filter names twice.
DuplicateNames(config) ==
  \E i, j \in DOMAIN config.channels :
    i # j /\ config.channels[i].channel = config.channels[j].channel

\* What CamillaDSP makes of the file: channel i of the file through the entries that name
\* it.
Applied(config, i) ==
  {ChannelPipeline(config.channels[k]) :
     k \in {k \in DOMAIN config.channels : config.channels[k].channel = i - 1}}

DelayAt(config, i) ==
  {config.channels[k].delay : k \in {k \in DOMAIN config.channels :
                                       config.channels[k].channel = i - 1}}

-----------------------------------------------------------------------------
(* The process command                                                     *)

NoOutput == [exists |-> FALSE, declared |-> 0, data |-> 0, from |-> NoFile,
             chains |-> <<>>, delays |-> <<>>, of |-> [api |-> "none"]]

Width(out) == Len(out.from.channels)

Idle == [phase |-> "idle", outcome |-> "none", keep |-> FALSE, job |-> [api |-> "none"]]

Init == /\ file = NoFile /\ output = NoOutput /\ command = Idle
        /\ child = "none" /\ temp = 0 /\ commands = 0

Return(outcome) == command' = [command EXCEPT !.phase = "idle", !.outcome = outcome]

\* Every check before the temporary directory: discovery, configuration, geometric delay,
\* the layout's mapping, the input file.
Prepared(job, mapped) ==
  /\ job.api = "layout" => Remappable(job.config, job.layout)
  /\ ValidConfig(mapped)
  /\ file.exists
  /\ Len(file.channels) = mapped.channel_count /\ file.rate = mapped.rate

\* `scene' is the scene of --apply-geometric-delay, NoScene without it.  The command line
\* uses the file-order entry point; the layout-aware one is called by the library's users.
\* A process the last command left behind (PollError) ends the behaviours of the model.
Process(api, layout, scene, config, keep) ==
  LET delayed == IF scene = NoScene THEN config ELSE GeometricDelay(config, scene)
      job     == [api |-> api, layout |-> layout, scene |-> scene, config |-> config]
      mapped  == IF api = "layout" THEN RemapConfigForWavLayout(config, layout) ELSE delayed
      ready   == /\ scene # NoScene => ValidScene(scene) /\ DelayFits(config, scene)
                 /\ Prepared(job, mapped)
  IN /\ command.phase = "idle" /\ commands < MaxCommands
     /\ child = "none"
     /\ commands' = commands + 1
     /\ command' = IF ready
                   THEN [phase |-> "temp", outcome |-> "none", keep |-> keep,
                         job |-> job @@ [mapped |-> mapped]]
                   ELSE [phase |-> "idle", outcome |-> "invalid", keep |-> keep, job |-> job]
     /\ UNCHANGED <<file, output, child, temp>>

\* create_dir_all, write of the configuration, spawn: each may fail, and an error leaves
\* the directory behind.
CreateTemp ==
  /\ command.phase = "temp"
  /\ \/ /\ temp' = temp + 1 /\ command' = [command EXCEPT !.phase = "spawn"]
     \/ temp' = temp /\ Return("io")
  /\ UNCHANGED <<file, output, child, commands>>

Spawn ==
  /\ command.phase = "spawn"
  /\ \/ child' = "running" /\ command' = [command EXCEPT !.phase = "poll"]
     \/ child' = child /\ Return("io")
  /\ UNCHANGED <<file, output, temp, commands>>

RemoveTemp == temp' = IF command.keep THEN temp ELSE temp - 1

PollExit ==
  /\ command.phase = "poll" /\ child \in {"success", "failure"}
  /\ child' = "none"
  /\ \/ /\ child = "failure" /\ RemoveTemp /\ Return("failed")
     \/ /\ child = "success" /\ command' = [command EXCEPT !.phase = "finalize"]
        /\ UNCHANGED temp
  /\ UNCHANGED <<file, output, commands>>

\* try_wait itself may fail: the child is dropped, not killed.
PollError == /\ command.phase = "poll"
             /\ Return("io")
             /\ UNCHANGED <<file, output, child, temp, commands>>

\* Mutant: the timeout returns without stopping the process.
TimeoutWithoutKill ==
  /\ command.phase = "poll" /\ child \in {"running", "blocked"}
  /\ RemoveTemp /\ Return("timeout")
  /\ UNCHANGED <<file, output, child, commands>>

Timeout ==
  /\ command.phase = "poll" /\ child \in {"running", "blocked"}
  /\ child' = "none"
  /\ RemoveTemp /\ Return("timeout")
  /\ UNCHANGED <<file, output, commands>>

\* inspect_processed_wav: the usable data is a whole number of frames.
WholeFrames(out) ==
  LET usable == IF out.declared = MaxData \/ out.declared > out.data THEN out.data
                ELSE out.declared
  IN usable % Width(out) = 0

\* The header of the streamed file gets the real sizes; the result is inspected and, for
\* the command line, inspected again.
FinalizeStreamingWav ==
  LET final == [output EXCEPT !.declared = output.data]
  IN /\ command.phase = "finalize"
     /\ \/ /\ output.exists /\ output.data <= MaxData
           /\ output' = final
           /\ IF WholeFrames(final)
              THEN \/ RemoveTemp /\ Return("ok")
                   \/ UNCHANGED temp /\ ~command.keep /\ Return("io")
              ELSE UNCHANGED temp /\ Return("invalid output")
        \/ /\ ~output.exists \/ output.data > MaxData
           /\ Return("invalid output") /\ UNCHANGED <<output, temp>>
     /\ UNCHANGED <<file, child, commands>>

-----------------------------------------------------------------------------
(* CamillaDSP, as far as the command depends on it                         *)

\* It opens the output with a streaming header and appends samples.  Its pipes are read
\* only after it has ended, so a process that fills one blocks.
ChildOpens ==
  /\ child = "running" /\ ~DuplicateNames(command.job.mapped)
  /\ output' = [exists |-> TRUE, declared |-> MaxData, data |-> 0,
                from |-> file,
                chains |-> [i \in DOMAIN file.channels |-> Applied(command.job.mapped, i)],
                delays |-> [i \in DOMAIN file.channels |-> DelayAt(command.job.mapped, i)],
                of |-> [api |-> command.job.api, layout |-> command.job.layout,
                        scene |-> command.job.scene, config |-> command.job.config]]
  /\ UNCHANGED <<file, command, child, temp, commands>>

\* One frame, or a part of one before the process ends.
ChildWrites ==
  /\ child = "running" /\ output.exists /\ output.declared = MaxData
  /\ output.data < FileFrames * Width(output)
  /\ \E n \in {1, Width(output)} : output' = [output EXCEPT !.data = @ + n]
  /\ UNCHANGED <<file, command, child, temp, commands>>

ChildEnds ==
  /\ child = "running"
  /\ child' \in {"success", "failure", "blocked"}
  /\ DuplicateNames(command.job.mapped) => child' = "failure"
  /\ UNCHANGED <<file, output, command, temp, commands>>

Next ==
  \/ \E scene \in Scenes, mono \in MonoFiles : RenderOffline(scene, mono)
  \/ \E config \in Configs, keep \in BOOLEAN :
       \/ \E layout \in DOMAIN CanonicalRoles : Process("layout", layout, NoScene, config, keep)
       \/ \E scene \in Scenes \cup {NoScene} : Process("file", "custom", scene, config, keep)
  \/ CreateTemp \/ Spawn \/ PollExit \/ PollError \/ Timeout \/ FinalizeStreamingWav
  \/ ChildOpens \/ ChildWrites \/ ChildEnds

Spec == Init /\ [][Next]_oaVars

-----------------------------------------------------------------------------
(* Properties                                                              *)

\* The audio of a role is on the channel labelled with it unless a speaker of the layout up
\* to it was disabled.
InPlace(scene, role) ==
  LET ordered == OrderedSpeakers(scene)
  IN \A i \in DOMAIN ordered : ordered[i].role = role => \A j \in 1 .. i : ordered[j].enabled

\* render_mono_to_scene and process_wav_for_layout: a chain configured for a logical channel
\* of the layout the file was rendered in is on the file's channel labelled with that
\* channel's role, wherever the WAV writer put it, and on no other; and what it filters there
\* is the audio rendered for that role, unless a speaker up to it was disabled.
DspOnItsRole ==
  LET layout   == output.from.scene.layout
      channels == output.from.channels
      entries  == output.of.config.channels
  IN output.exists /\ output.of.api = "layout" /\ output.of.layout = layout =>
       \A i \in DOMAIN channels :
         /\ output.chains[i] =
              {ChannelPipeline(entries[k]) :
                 k \in {k \in DOMAIN entries :
                          CanonicalRoles[layout][entries[k].channel + 1] = channels[i].role}}
         /\ InPlace(output.from.scene, channels[i].role) => channels[i].audio = channels[i].role

\* A command that answered with success, failure of the process or a timeout has the last
\* word on the output file: nothing writes to it until the next command.
AnswerIsFinal ==
  [][command.phase = "idle" /\ command.outcome \in {"ok", "failed", "timeout"}
       => output' = output]_oaVars
=============================================================================
