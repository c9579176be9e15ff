-------------------------------- MODULE Audio --------------------------------
(***************************************************************************)
(* The audio of a connected client: its Microphone and its Speaker, from   *)
(* their constructors, which Connect runs, to their destructors, which a   *)
(* second connect or the end of the process runs.                          *)
(*                                                                         *)
(* RtAudio calls each object back on a thread of its own while its stream  *)
(* runs.  The microphone has another thread, which sends silence while the *)
(* stream does not run, with the encoder and the buffer the callback uses. *)
(* Console and hotkeys mute and restart the streams meanwhile.             *)
(*                                                                         *)
(* Left out: volumes, which a callback may read while they are written,    *)
(* the samples, and device lists.  Each callback of the microphone has an  *)
(* input buffer: one without it returns at once, and sends nothing.        *)
(* A join packet and a voice packet are received alike; only the second    *)
(* needs the decoder.                                                      *)
(* That a second connect replaces the socket under both is in Client.      *)
(***************************************************************************)
EXTENDS Naturals, FiniteSets

CONSTANT
  Plans   \* bounds on the mute and override commands, the requests to fix the speaker's
          \* delay and the packets of one life; any one of them may be met

ASSUME PlansAssumption ==
  Plans \subseteq [commands : Nat, fixes : Nat, packets : Nat]

Devices == {"microphone", "speaker"}
Threads == {"console", "hotkey"}

VARIABLES
  process,                  \* the client's process
  object, stage,            \* the object being made, and how far it or the end is
  encoder, decoder,         \* Microphone::encoder; does Speaker::decoder exist
  stream,                   \* device -> the state of its RtAudio stream
  callback,                 \* device -> where its callback is
  silence, running,         \* the silence thread, and the flag on its stack
  switched,                 \* history: the microphone's stream changed since that thread looked
  thread,                   \* thread -> its command: [what, device, at]
  closing,                  \* the close handler
  arrived, read,            \* packets that reached the socket, and those taken from it
  fixDelay,                 \* Speaker::fixDelay
  asked, stale, cut,        \* history: arrived at the last request, how many of those were
                            \* played after it, and that its drain ended early
  left                      \* what is left of the plan

life == <<process, object, stage, encoder, decoder>>
queue == <<arrived, read, fixDelay, asked, stale, cut>>
silent == <<silence, running>>
audioVars == <<life, stream, callback, silent, switched, thread, closing, queue, left>>

Stages == {"open", "start", "create", "spawn", "built",
           "quiet", "destroy", "clear", "close", "gone"}

Ending == {"quiet", "destroy", "clear", "close", "gone"}

Steps == {"idle", "check", "stop", "wait", "start", "open", "close", "reopen"}

AudioTypeOK ==
  /\ process \in {"runs", "exiting", "over", "terminated", "crashed"}
  /\ object \in Devices /\ stage \in Stages
  /\ encoder \in {"none", "live", "destroyed"} /\ decoder \in BOOLEAN
  /\ stream \in [Devices -> {"closed", "stopped", "running", "stopping"}]
  /\ callback["microphone"] \in {"out", "encode", "send"}
  /\ callback["speaker"] \in {"out", "played", "drain", "clear"}
  /\ silence \in {"none", "begin", "while", "look", "encode", "send", "over"}
  /\ running \in BOOLEAN /\ switched \in BOOLEAN
  /\ thread \in [Threads -> [what : {"mute", "override"}, device : Devices, at : Steps]]
  /\ closing \in {"no", "encode", "send"}
  /\ arrived \in Nat /\ read \in 0..arrived
  /\ fixDelay \in BOOLEAN /\ cut \in BOOLEAN
  /\ asked \in 0..arrived /\ stale \in 0..arrived
  /\ left \in [commands : Nat, fixes : Nat, packets : Nat]

AudioInit ==
  /\ process = "runs" /\ object = "microphone" /\ stage = "open"
  /\ encoder = "none" /\ decoder = FALSE
  /\ stream = [d \in Devices |-> "closed"] /\ callback = [d \in Devices |-> "out"]
  /\ silence = "none" /\ running = TRUE /\ switched = FALSE
  /\ thread = [t \in Threads |-> [what |-> "mute", device |-> "microphone", at |-> "idle"]]
  /\ closing = "no"
  /\ arrived = 0 /\ read = 0 /\ fixDelay = FALSE /\ asked = 0 /\ stale = 0 /\ cut = FALSE
  /\ left \in Plans

Alive == process \in {"runs", "exiting"}

\* The objects' memory has been given back: exit destroys the speaker first, a second
\* connect the microphone.
Freed == stage = "gone" \/ (stage = "quiet" /\ process = "runs")

-----------------------------------------------------------------------------
(* RtAudio.  It reports errors by a result, which nobody reads: a call in  *)
(* a wrong state, or on a device that fails, changes nothing.              *)

Becomes(d, s) ==
  /\ stream' = [stream EXCEPT ![d] = s]
  /\ switched' = (switched \/ d = "microphone")

OpenStream(d) ==
  \/ UNCHANGED <<stream, switched>>
  \/ stream[d] = "closed" /\ Becomes(d, "stopped")

StartStream(d) ==
  \/ UNCHANGED <<stream, switched>>
  \/ stream[d] = "stopped" /\ Becomes(d, "running")

\* No further callback begins; isStreamRunning says no from here on.
StopStream(d) ==
  IF stream[d] = "running" THEN Becomes(d, "stopping") ELSE UNCHANGED <<stream, switched>>

\* stopStream and abortStream return when the callback has.
StopReturns(d) ==
  /\ callback[d] = "out"
  /\ IF stream[d] = "stopping" THEN Becomes(d, "stopped") ELSE UNCHANGED <<stream, switched>>

CloseStream(d) ==
  /\ callback[d] = "out"
  /\ IF stream[d] = "closed" THEN UNCHANGED <<stream, switched>> ELSE Becomes(d, "closed")

-----------------------------------------------------------------------------
(* The constructors, in which Opus does not fail, and the destructors.     *)

Constructs(s) == process = "runs" /\ stage = s

\* Constructor of either: openStream, startStream, then the coder.
Open ==
  /\ Constructs("open") /\ OpenStream(object) /\ stage' = "start"
  /\ UNCHANGED <<process, object, encoder, decoder, callback, silent, thread, closing, queue, left>>

Start ==
  /\ Constructs("start") /\ StartStream(object) /\ stage' = "create"
  /\ UNCHANGED <<process, object, encoder, decoder, callback, silent, thread, closing, queue, left>>

\* Mutant: the encoder could not be created, and nobody looks.
Unnoticed == encoder' = "none"

Created == encoder' = "live"

CreateEncoder ==
  /\ Constructs("create") /\ object = "microphone"
  /\ Created /\ stage' = "spawn"
  /\ UNCHANGED <<process, object, decoder, stream, callback, silent, switched, thread, closing, queue, left>>

Spawn ==
  /\ Constructs("spawn")
  /\ silence' = "begin" /\ object' = "speaker" /\ stage' = "open"
  /\ UNCHANGED <<process, encoder, decoder, stream, callback, running, switched, thread, closing, queue, left>>

CreateDecoder ==
  /\ Constructs("create") /\ object = "speaker"
  /\ decoder' = TRUE /\ stage' = "built"
  /\ UNCHANGED <<process, object, encoder, stream, callback, silent, switched, thread, closing, queue, left>>

\* connect, when the client is connected: the new microphone takes the old one's place.
Reconnect ==
  /\ Constructs("built") /\ thread["console"].at = "idle"
  /\ stage' = "destroy"
  /\ UNCHANGED <<process, object, encoder, decoder, stream, callback, silent, switched, thread, closing, queue, left>>

\* exit destroys what the process has of the two, the last one made first.  While a
\* connect replaces them it has none, or others.
Exits ==
  /\ process = "runs"
  /\ IF object = "microphone" \/ stage \in Ending
       THEN process' = "over" /\ UNCHANGED stage
       ELSE /\ process' = "exiting"
            /\ stage' = IF stage = "built" THEN "quiet" ELSE "destroy"

Exit ==
  /\ Constructs("built") /\ thread["console"].at = "idle"
  /\ Exits
  /\ UNCHANGED <<object, encoder, decoder, stream, callback, silent, switched, thread, closing, queue, left>>

\* ~Microphone: the encoder first, while both threads go on.
DestroyEncoder ==
  /\ Alive /\ stage = "destroy"
  /\ encoder' = "destroyed" /\ stage' = "clear"
  /\ UNCHANGED <<process, object, decoder, stream, callback, silent, switched, thread, closing, queue, left>>

\* runningGetter() = false.  Before the thread has set it, it is empty, and its
\* exception leaves the destructor.
ClearRunning ==
  /\ Alive /\ stage = "clear"
  /\ \/ silence = "begin" /\ process' = "terminated" /\ UNCHANGED <<running, stage>>
     \/ silence # "begin" /\ running' = FALSE /\ stage' = "close" /\ UNCHANGED process
  /\ UNCHANGED <<object, encoder, decoder, stream, callback, silence, switched, thread, closing, queue, left>>

CloseMicrophone ==
  /\ Alive /\ stage = "close" /\ CloseStream("microphone")
  /\ stage' = IF process = "exiting" THEN "gone" ELSE "quiet"
  /\ UNCHANGED <<process, object, encoder, decoder, callback, silent, thread, closing, queue, left>>

\* deleteSpeaker; nobody destroys the decoder.
CloseSpeaker ==
  /\ Alive /\ stage = "quiet" /\ CloseStream("speaker")
  /\ stage' = IF process = "exiting" THEN "destroy" ELSE "gone"
  /\ UNCHANGED <<process, object, encoder, decoder, callback, silent, thread, closing, queue, left>>

Over ==
  /\ process = "exiting" /\ stage = "gone" /\ process' = "over"
  /\ UNCHANGED <<object, stage, encoder, decoder, stream, callback, silent, switched, thread, closing, queue, left>>

-----------------------------------------------------------------------------
(* The microphone's packets: from the callback, from the silence thread    *)
(* and from the close handler.                                             *)

\* opus_encode_float with a null or dangling encoder.
Crashes == process' = "crashed"

EncodeSound ==
  /\ Alive /\ callback["microphone"] = "out" /\ stream["microphone"] = "running"
  /\ callback' = [callback EXCEPT !["microphone"] = "encode"]
  /\ UNCHANGED <<life, stream, silent, switched, thread, closing, queue, left>>

EncodedSound ==
  /\ Alive /\ callback["microphone"] = "encode"
  /\ IF encoder = "live"
       THEN callback' = [callback EXCEPT !["microphone"] = "send"] /\ UNCHANGED process
       ELSE Crashes /\ UNCHANGED callback
  /\ UNCHANGED <<object, stage, encoder, decoder, stream, silent, switched, thread, closing, queue, left>>

SendSound ==
  /\ Alive /\ callback["microphone"] = "send"
  /\ callback' = [callback EXCEPT !["microphone"] = "out"]
  /\ UNCHANGED <<life, stream, silent, switched, thread, closing, queue, left>>

\* sendData throws: exit(1).
SoundFails ==
  /\ callback["microphone"] = "send" /\ Exits
  /\ callback' = [callback EXCEPT !["microphone"] = "out"]
  /\ UNCHANGED <<object, encoder, decoder, stream, silent, switched, thread, closing, queue, left>>

Silence(from, to) == Alive /\ silence = from /\ silence' = to

SetGetter ==
  /\ Silence("begin", "while")
  /\ UNCHANGED <<life, stream, callback, running, switched, thread, closing, queue, left>>

\* while (running)
CheckRunning ==
  /\ Silence("while", IF running THEN "look" ELSE "over")
  /\ UNCHANGED <<life, stream, callback, running, switched, thread, closing, queue, left>>

\* Mutant: no look at the stream.
AlwaysSilent == TRUE

\* Mutant: silence only when there is no stream at all.
NotOpen == stream["microphone"] = "closed"

NotRunning == stream["microphone"] # "running"

\* if (!audio.isStreamRunning()), and the sleep when it runs.
LookAtStream ==
  /\ ~Freed /\ Silence("look", IF NotRunning THEN "encode" ELSE "while")
  /\ switched' = FALSE
  /\ UNCHANGED <<life, stream, callback, running, thread, closing, queue, left>>

EncodedSilence ==
  /\ ~Freed /\ Alive /\ silence = "encode"
  /\ IF encoder = "live"
       THEN silence' = "send" /\ UNCHANGED process
       ELSE Crashes /\ UNCHANGED silence
  /\ UNCHANGED <<object, stage, encoder, decoder, stream, callback, running, switched, thread, closing, queue, left>>

\* sendData, and the sleep.
SendSilence ==
  /\ ~Freed /\ Silence("send", "while")
  /\ UNCHANGED <<life, stream, callback, running, switched, thread, closing, queue, left>>

\* sendData throws on a thread that catches nothing.
SilenceFails ==
  /\ ~Freed /\ Silence("send", "over") /\ process' = "terminated"
  /\ UNCHANGED <<object, stage, encoder, decoder, stream, callback, running, switched, thread, closing, queue, left>>

\* The object is gone under the thread.
SilenceAfterEnd ==
  /\ Freed /\ Alive /\ silence \in {"look", "encode", "send"}
  /\ \/ Crashes /\ UNCHANGED silence
     \/ silence' = "while" /\ UNCHANGED process
  /\ UNCHANGED <<object, stage, encoder, decoder, stream, callback, running, switched, thread, closing, queue, left>>

\* onExit sends one silence and asks the server to remove the session; the system
\* ends the process when it returns.
BeginClose ==
  /\ process = "runs" /\ closing = "no"
  /\ object = "speaker" /\ ~Freed
  /\ closing' = "encode"
  /\ UNCHANGED <<life, stream, callback, silent, switched, thread, queue, left>>

CloseEncoded ==
  /\ Alive /\ closing = "encode"
  /\ IF encoder = "live"
       THEN closing' = "send" /\ UNCHANGED process
       ELSE Crashes /\ UNCHANGED closing
  /\ UNCHANGED <<object, stage, encoder, decoder, stream, callback, silent, switched, thread, queue, left>>

Closed ==
  /\ Alive /\ closing = "send"
  /\ closing' = "no" /\ process' = "over"
  /\ UNCHANGED <<object, stage, encoder, decoder, stream, callback, silent, switched, thread, queue, left>>

-----------------------------------------------------------------------------
(* mute_or_unmute, by command or hotkey, and override_*_device_id, which   *)
(* restarts the stream.                                                    *)

Command(t, what, d) ==
  /\ process = "runs" /\ thread[t].at = "idle" /\ left.commands > 0
  /\ object = "speaker" /\ ~Freed /\ (t = "console" => stage = "built")
  /\ thread' = [thread EXCEPT ![t] = [what |-> what, device |-> d, at |-> "check"]]
  /\ left' = [left EXCEPT !.commands = @ - 1]
  /\ UNCHANGED <<life, stream, callback, silent, switched, closing, queue>>

\* A step of t's command, while the object is there.
Goes(t, from, to) ==
  /\ Alive /\ ~Freed
  /\ thread[t].at = from /\ thread' = [thread EXCEPT ![t].at = to]
  /\ UNCHANGED <<life, callback, silent, closing, queue, left>>

\* isStreamRunning, which the next step relies on.
Check(t) ==
  /\ Goes(t, "check", IF stream[thread[t].device] = "running" THEN "stop"
                      ELSE IF thread[t].what = "mute" THEN "start" ELSE "open")
  /\ UNCHANGED <<stream, switched>>

Stop(t) == Goes(t, "stop", "wait") /\ StopStream(thread[t].device)

Stopped(t) ==
  /\ Goes(t, "wait", IF thread[t].what = "mute" THEN "idle" ELSE "open")
  /\ StopReturns(thread[t].device)

\* isStreamOpen, and closeStream, which stops a running stream first.
Close(t) ==
  \/ /\ stream[thread[t].device] = "running"
     /\ Goes(t, "open", "open") /\ StopStream(thread[t].device)
  \/ /\ stream[thread[t].device] # "running"
     /\ Goes(t, "open", "reopen") /\ CloseStream(thread[t].device)

Reopen(t) == Goes(t, "reopen", "start") /\ OpenStream(thread[t].device)

StartAgain(t) == Goes(t, "start", "idle") /\ StartStream(thread[t].device)

\* The object is gone under the command.
CommandAfterEnd(t) ==
  /\ Freed /\ Alive /\ thread[t].at # "idle"
  /\ \/ Crashes /\ UNCHANGED thread
     \/ thread' = [thread EXCEPT ![t].at = "idle"] /\ UNCHANGED process
  /\ UNCHANGED <<object, stage, encoder, decoder, stream, callback, silent, switched, closing, queue, left>>

-----------------------------------------------------------------------------
(* The speaker's packets.                                                  *)

Arrive ==
  /\ Alive /\ left.packets > 0 /\ left' = [left EXCEPT !.packets = @ - 1]
  /\ arrived' = arrived + 1
  /\ UNCHANGED <<life, stream, callback, silent, switched, thread, closing, read, fixDelay, asked, stale, cut>>

\* fixSpeakerDelay: the command, the hotkey, or a notification.
RequestFix ==
  /\ process = "runs" /\ stage = "built"
  /\ left.fixes > 0 /\ left' = [left EXCEPT !.fixes = @ - 1]
  /\ fixDelay' = TRUE
  /\ asked' = arrived /\ stale' = 0 /\ cut' = (callback["speaker"] = "clear")
  /\ UNCHANGED <<life, stream, callback, silent, switched, thread, closing, arrived, read>>

SpeakerGoes(from, to) ==
  /\ Alive /\ callback["speaker"] = from /\ callback' = [callback EXCEPT !["speaker"] = to]
  /\ UNCHANGED <<object, stage, encoder, decoder, stream, silent, switched, thread, closing, arrived, left>>

\* receiveData, when there is something; else the callback does nothing.  A voice
\* packet before the decoder is there is decoded with a null decoder.
PlayPacket ==
  /\ stream["speaker"] = "running" /\ read < arrived
  /\ SpeakerGoes("out", "played")
  /\ read' = read + 1 /\ stale' = stale + (IF read' <= asked THEN 1 ELSE 0)
  /\ \/ UNCHANGED process
     \/ ~decoder /\ Crashes
  /\ UNCHANGED <<fixDelay, asked, cut>>

\* if (result && fixDelay)
CheckFix ==
  /\ SpeakerGoes("played", IF fixDelay THEN "drain" ELSE "out")
  /\ UNCHANGED <<process, read, fixDelay, asked, stale, cut>>

\* Mutant: one packet is dropped.
OneOnly == "clear"

\* while (true)
AfterDropped == "drain"

Drop ==
  /\ read < arrived /\ SpeakerGoes("drain", AfterDropped) /\ read' = read + 1
  /\ UNCHANGED <<process, fixDelay, asked, stale, cut>>

Drained ==
  /\ read = arrived /\ SpeakerGoes("drain", "clear")
  /\ UNCHANGED <<process, read, fixDelay, asked, stale, cut>>

\* recvfrom fails though there are packets: after an ICMP error it does.
DrainFails ==
  /\ read < arrived /\ SpeakerGoes("drain", "clear") /\ cut' = TRUE
  /\ UNCHANGED <<process, read, fixDelay, asked, stale>>

ClearFix ==
  /\ SpeakerGoes("clear", "out") /\ fixDelay' = FALSE
  /\ UNCHANGED <<process, read, asked, stale, cut>>

-----------------------------------------------------------------------------
Constructor == Open \/ Start \/ CreateEncoder \/ Spawn \/ CreateDecoder

Destructor == DestroyEncoder \/ ClearRunning \/ CloseMicrophone \/ CloseSpeaker \/ Over

SoundCallback == EncodeSound \/ EncodedSound \/ SendSound \/ SoundFails

SilenceThread ==
  \/ SetGetter \/ CheckRunning \/ LookAtStream
  \/ EncodedSilence \/ SendSilence \/ SilenceFails \/ SilenceAfterEnd

CommandGoesOn(t) ==
  Check(t) \/ Stop(t) \/ Stopped(t) \/ Close(t) \/ Reopen(t) \/ StartAgain(t) \/ CommandAfterEnd(t)

SpeakerCallback == PlayPacket \/ CheckFix \/ Drop \/ Drained \/ DrainFails \/ ClearFix

AudioNext ==
  \/ Constructor \/ Reconnect \/ Exit \/ Destructor
  \/ SoundCallback \/ SilenceThread
  \/ BeginClose \/ CloseEncoded \/ Closed
  \/ \E t \in Threads : Command(t, "mute", "microphone") \/ CommandGoesOn(t)
  \/ \E d \in Devices : Command("console", "override", d)
  \/ Arrive \/ RequestFix \/ SpeakerCallback

AudioSpec == AudioInit /\ [][AudioNext]_audioVars

\* The threads run: RtAudio calls back while a stream runs, and commands, once given,
\* go on.  Nobody has to give one, and nothing has to arrive.
AudioFairSpec ==
  /\ AudioSpec
  /\ WF_audioVars(Constructor) /\ WF_audioVars(Destructor)
  /\ WF_audioVars(SoundCallback) /\ WF_audioVars(SilenceThread) /\ WF_audioVars(SpeakerCallback)
  /\ \A t \in Threads : WF_audioVars(CommandGoesOn(t))

-----------------------------------------------------------------------------
(* Properties.                                                             *)

\* Microphone and Speaker: a coder is used before it exists, or when it no longer does,
\* only while Connect makes the objects and once their end has begun; in between neither
\* restarts nor mutes, the silence thread nor the close handler can.
CrashesAtTheEdges ==
  process = "crashed" => stage \in {"create"} \cup Ending

\* The thread that sends silence lives as long as the object.
SilenceWatches == silence = "over" /\ Alive => ~running /\ stage \in Ending

\* Microphone::callback and sendSilence share the encoder and outputData without a lock:
\* the callback and the silence thread use them at once only when the stream was stopped
\* or started between the thread's look and its use, or is being stopped.
EncoderAlone ==
  callback["microphone"] # "out" /\ silence \in {"encode", "send"} =>
    switched \/ stream["microphone"] = "stopping"

\* What holds of the objects' threads and states throughout.
AudioInv == AudioTypeOK /\ CrashesAtTheEdges /\ SilenceWatches /\ EncoderAlone

\* Speaker::callback: when a request to fix the delay has been carried out, at most one of
\* the packets that had arrived by then has been played since, and none is left, unless the
\* drain was cut short or the request came after it.
FixDropsOld ==
  ~cut => stale <= 1 /\ (~fixDelay => read >= asked)

\* Microphone: a connected client that stays so is heard for ever, muted or not, restarted
\* or not, and with a device that cannot be opened; VoiceServer removes those it has not
\* heard for a while.
KeepsSending ==
  <>[](stage = "built" /\ process = "runs") => []<><<SendSound \/ SendSilence>>_audioVars
=============================================================================
