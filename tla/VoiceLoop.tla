------------------------------ MODULE VoiceLoop ------------------------------
(* The Mac's voice loop.  It greets; then a turn records an utterance, frame  *)
(* by frame until the speaker is quiet, and reads the reply's events.  Every  *)
(* finished phrase becomes a task that fetches its audio into a file and      *)
(* queues it for the player, a thread; another thread listens for the user    *)
(* talking over it.  A tool of the Mac that the reply calls holds up the       *)
(* events.  The server, the microphone, the sound player and what a tool does *)
(* are external.                                                              *)
EXTENDS Naturals, Sequences, SequencesExt

CONSTANTS
  MaxTurns,    \* bound: turns in which something was understood
  MaxPhrases,  \* bound: phrases of a reply, what it announces included
  BargeIn,     \* BARGE_IN_ENABLED, with the detector installed
  MinSpeech,   \* loud frames that make speech
  PreRoll,     \* frames before it that belong to the utterance
  Silence,     \* quiet frames that end it
  MaxFrames    \* frames after which it is cut

ASSUME VoiceLoopAssumption ==
  /\ {MaxTurns, MaxPhrases} \subseteq Nat /\ BargeIn \in BOOLEAN
  /\ {MinSpeech, PreRoll, Silence, MaxFrames} \subseteq Nat \ {0}
  /\ PreRoll <= MaxFrames

VARIABLES
  stage,      \* where the loop is
  mic,        \* the recorder's counts: loud frames, ring, frames recorded, quiet ones
  turn,       \* turns so far
  said,       \* phrases of this turn so far
  buf,        \* whether text is left that is no phrase yet
  hushed,     \* interrupted, as the turn found when the events were over
  synths,     \* phrases whose audio is being fetched
  toPlay,     \* phrases whose files await the player
  player,     \* what the player's thread is at, and the phrase in its hand
  busy,       \* _busy
  monitor,    \* this turn's detector: off, armed or heard
  muted,
  files,      \* phrases that have a file
  session,    \* the session the loop holds, 0 for none
  sent,       \* the session this turn was sent with
  saved,      \* the session in the file, 0 for none or an empty file
  opened,     \* sessions the server has opened
  lost,       \* those of them that it has forgotten, or whose name nobody has
  played,     \* history: phrases of this run that began to sound
  again,      \* history: one of them sounded twice
  dropped,    \* history: phrases an interruption took from the queue
  failed,     \* history: phrases for which there was no audio
  whole       \* history: the turn was neither interrupted nor broken off

conversation == <<session, sent, saved, opened, lost>>
speech == <<synths, toPlay, files, played, again, dropped, failed>>
voiceVars == <<stage, mic, turn, said, buf, hushed, synths, toPlay, player, busy, monitor, muted, files,
          conversation, played, again, dropped, failed, whole>>

Greeting == <<0, 1>>
Phrases == ((1..MaxTurns) \X (1..MaxPhrases)) \cup {Greeting}
InHand == {player.phrase} \ {<<>>}
Alive == synths \cup ToSet(toPlay) \cup InHand

NoFrames == [loud |-> 0, ring |-> 0, rec |-> 0, quiet |-> 0]

VoiceTypeOK ==
  /\ stage \in {"gone", "start", "top", "listen", "recorded", "asks", "stream", "tool", "cut", "gather",
               "drain", "between", "saving"}
  /\ mic \in [loud : 0..MinSpeech, ring : 0..PreRoll, rec : 0..MaxFrames, quiet : 0..Silence]
  /\ stage # "listen" => mic = NoFrames
  /\ turn \in 0..MaxTurns /\ said \in 0..MaxPhrases
  /\ synths \subseteq Phrases /\ ToSet(toPlay) \subseteq Phrases
  /\ Alive \subseteq files
  /\ IsInjective(toPlay) /\ synths \cap ToSet(toPlay) = {} /\ InHand \cap ToSet(toPlay) = {}
  /\ player.at \in {"wait", "took", "busy", "plays", "dead"}
  /\ (player.at \in {"wait", "dead"}) = (InHand = {}) /\ busy \in BOOLEAN
  /\ BargeIn \/ monitor = "off"
  /\ {session, saved} \subseteq 0..opened /\ lost \subseteq 1..opened

VoiceInit ==
  /\ stage = "start" /\ mic = NoFrames /\ turn = 0 /\ said = 0 /\ buf = FALSE /\ hushed = FALSE
  /\ synths = {} /\ toPlay = <<>> /\ player = [at |-> "wait", phrase |-> <<>>] /\ busy = FALSE
  /\ monitor = "off" /\ muted = FALSE /\ files = {}
  /\ session = 0 /\ sent = 0 /\ saved = 0 /\ opened = 0 
  /\ played = {} /\ again = FALSE /\ dropped = {} /\ failed = {} /\ whole = TRUE /\ lost = {}

-----------------------------------------------------------------------------
(* The turn                                                                *)

\* ENTER: at any time, and looked at only before and while the loop listens.
Mute ==
  /\ stage \in {"top", "listen"}
  /\ muted' = ~ muted
  /\ UNCHANGED <<stage, mic, turn, said, buf, hushed, speech, player, busy, monitor, conversation,
                 whole>>

\* The first words, fetched before the loop listens, sound while it listens.
Greet ==
  /\ stage = "start"
  /\ stage' = "top"
  /\ \/ toPlay' = Append(toPlay, Greeting) /\ files' = files \cup {Greeting}
     \/ UNCHANGED <<toPlay, files>>
  /\ UNCHANGED <<mic, turn, said, buf, hushed, synths, played, again, dropped, failed, player, busy,
                 monitor, muted, conversation, whole>>

\* Before the speech: its frames are counted, and taken back by quiet ones; once
\* they are enough, the ring is the beginning of the recording.
Onset(loud) ==
  LET n == IF loud THEN mic.loud + 1 ELSE IF mic.loud = 0 THEN 0 ELSE mic.loud - 1
      ring == IF mic.ring = PreRoll THEN PreRoll ELSE mic.ring + 1
  IN  [loud |-> n, ring |-> ring, rec |-> IF n = MinSpeech THEN ring ELSE 0, quiet |-> 0]

\* In the speech, until it has been quiet, or gone on, for long enough.
Goes(loud) ==
  [mic EXCEPT !.rec = @ + 1, !.quiet = IF loud THEN 0 ELSE @ + 1]

Ends(m) == m.quiet = Silence \/ m.rec >= MaxFrames

Still == UNCHANGED <<turn, said, buf, hushed, speech, player, busy, monitor, muted, conversation,
                     whole>>

\* The next turn begins with the recorder, unless the loop is muted.
TurnBegins ==
  /\ stage = "top" /\ ~ muted
  /\ stage' = "listen"
  /\ UNCHANGED mic /\ Still

\* The microphone delivers a frame.
Frame ==
  /\ stage = "listen" /\ ~ muted
  /\ \E loud \in BOOLEAN :
       \/ mic.rec = 0 /\ mic' = Onset(loud) /\ UNCHANGED stage
       \/ mic.rec > 0 /\ ~ Ends(Goes(loud)) /\ mic' = Goes(loud) /\ UNCHANGED stage
       \/ mic.rec > 0 /\ Ends(Goes(loud)) /\ mic' = NoFrames /\ stage' = "recorded"
  /\ Still

\* Muted, the recorder gives up what it has, and the turn returns.
GiveUp ==
  /\ stage = "listen" /\ muted
  /\ mic' = NoFrames /\ stage' = "between"
  /\ Still

\* Muted at the last moment, too short, not transcribed, or silent.
NotUnderstood ==
  /\ stage = "recorded"
  /\ stage' = "between"
  /\ UNCHANGED mic /\ Still

\* The text is sent with the session.  The histories keep the phrases that may
\* still sound.
Understood ==
  /\ stage = "recorded" /\ turn < MaxTurns
  /\ stage' = "asks" /\ turn' = turn + 1 /\ sent' = session
  /\ said' = 0 /\ buf' = FALSE /\ whole' = TRUE
  /\ played' = played \cap Alive /\ dropped' = dropped \cap Alive /\ failed' = {}
  /\ UNCHANGED <<mic, hushed, synths, toPlay, files, again, player, busy, monitor, muted, session, saved,
                 opened, lost>>

\* The sessions that the server has, and that it may be asked for.
Remembered == (1..opened) \ lost

\* The first event tells the session: the one that was sent, or a new one when
\* none was, or one the server does not know.
Session ==
  /\ stage = "asks"
  /\ stage' = "stream"
  /\ IF sent \in Remembered THEN session' = sent /\ UNCHANGED opened
                       ELSE session' = opened + 1 /\ opened' = opened + 1
  /\ UNCHANGED <<mic, turn, said, buf, hushed, speech, player, busy, monitor, muted,
                 sent, saved, lost, whole>>

\* With l goes a session that was opened for a request that is not answered, which
\* nobody is told.
Loses(l) ==
  /\ \/ opened' = opened
     \/ stage = "asks" /\ sent \notin Remembered /\ opened' = opened + 1
  /\ lost' = lost \cup l \cup (opened + 1..opened')

\* Another deployment of the server, whose tables are empty.  It may come at any
\* time, and nobody knows of it before the server is asked.
Redeploy ==
  /\ stage = "asks" /\ Remembered # {}
  /\ lost' = 1..opened
  /\ UNCHANGED <<stage, mic, turn, said, buf, hushed, speech, player, busy, monitor, muted,
                 session, sent, saved, opened, whole>>

\* n phrases more, each the work of a task.
Speaks(n) ==
  LET new == {<<turn, k>> : k \in said + 1..said + n}
  IN  /\ said + n <= MaxPhrases
      /\ said' = said + n
      /\ synths' = synths \cup new /\ files' = files \cup new

Quiet == UNCHANGED <<player, busy, monitor, muted, toPlay, played, again, dropped, failed>>

Event == stage = "stream" /\ monitor # "heard"

Token ==
  /\ Event
  /\ \E n \in {0, 1}, rest \in BOOLEAN :
       /\ n = 0 => ~ buf /\ rest
       /\ Speaks(n) /\ buf' = rest
  /\ Quiet /\ UNCHANGED <<stage, mic, turn, hushed, conversation, whole>>

\* A tool that starts or goes on, or an approval it needs, is said aloud after
\* what was left.
Announce ==
  /\ Event
  /\ Speaks(IF buf THEN 2 ELSE 1) /\ buf' = FALSE
  /\ Quiet /\ UNCHANGED <<stage, mic, turn, hushed, conversation, whole>>

During == UNCHANGED <<mic, turn, said, buf, hushed, speech, player, busy, monitor, muted,
                      conversation, whole>>

\* A tool of the Mac, in a thread: no event is read until it is over, so that
\* nobody asks the detector.
ToolCall == Event /\ stage' = "tool" /\ During

\* Its command ends, or fails.
ToolEnds == stage = "tool" /\ stage' = "stream" /\ During

\* After the last event the rest is said, unless the user has spoken meanwhile.
Rest(n) ==
  /\ hushed' = (monitor = "heard") /\ whole' = ~ hushed'
  /\ IF buf /\ ~ hushed' THEN Speaks(n + 1) /\ buf' = FALSE ELSE Speaks(n) /\ UNCHANGED buf
  /\ stage' = "gather"

\* The reply is done, or an error is said aloud.
Done ==
  /\ Event
  /\ \E n \in {0, 1} : Rest(n)
  /\ Quiet /\ UNCHANGED <<mic, turn, conversation>>

\* The connection closes after the user has spoken, with no event to notice it at.
Closed ==
  /\ stage = "stream" /\ monitor = "heard"
  /\ Rest(0)
  /\ Quiet /\ UNCHANGED <<mic, turn, conversation>>

\* Fault: the turn gives back the session it was sent with.
BrokenForgets ==
  /\ stage \in {"asks", "stream"}
  /\ stage' = "between" /\ whole' = FALSE
  /\ session' = sent
  /\ Loses({})
  /\ UNCHANGED <<mic, turn, said, buf, hushed, speech, player, busy, monitor, muted,
                 sent, saved>>

\* The network fails: the tasks go on, and what the server told counts.
Broken ==
  /\ stage \in {"asks", "stream"}
  /\ stage' = "between" /\ whole' = FALSE
  /\ Loses({})
  /\ UNCHANGED <<mic, turn, said, buf, hushed, speech, player, busy, monitor, muted,
                 session, sent, saved>>

\* The next event finds that the user has spoken.
Interrupt ==
  /\ stage = "stream" /\ monitor = "heard"
  /\ stage' = "cut" /\ whole' = FALSE
  /\ UNCHANGED <<mic, turn, said, buf, hushed, speech, player, busy, monitor, muted, conversation>>

\* Fault: the file goes, the phrase stays in the queue.
DiscardPeeks ==
  /\ stage = "cut" /\ toPlay # <<>> /\ Head(toPlay) \notin dropped
  /\ files' = files \ {Head(toPlay)} /\ dropped' = dropped \cup {Head(toPlay)}
  /\ UNCHANGED <<stage, mic, turn, said, buf, hushed, synths, toPlay, player, busy, monitor, muted, played,
                 again, failed, conversation, whole>>

\* Fault: the phrase goes, its file stays.
DiscardLeaves ==
  /\ stage = "cut" /\ toPlay # <<>>
  /\ toPlay' = Tail(toPlay) /\ dropped' = dropped \cup {Head(toPlay)}
  /\ UNCHANGED <<stage, mic, turn, said, buf, hushed, synths, files, player, busy, monitor, muted, played,
                 again, failed, conversation, whole>>

\* What is queued goes, file and all, one after the other, while the player may
\* take the next.
Discard ==
  /\ stage = "cut" /\ toPlay # <<>>
  /\ toPlay' = Tail(toPlay) /\ files' = files \ {Head(toPlay)}
  /\ dropped' = dropped \cup {Head(toPlay)}
  /\ UNCHANGED <<stage, mic, turn, said, buf, hushed, synths, player, busy, monitor, muted, played, again,
                 failed, conversation, whole>>

\* Then what sounds is stopped, if the player got so far as to say what it is.
StopCurrent ==
  /\ stage = "cut" /\ toPlay = <<>>
  /\ busy' = FALSE /\ hushed' = TRUE
  /\ stage' = "gather"
  /\ UNCHANGED <<mic, turn, said, buf, speech, player, monitor, muted, conversation, whole>>

\* Fault: nobody waits for the tasks.
GatherNothing ==
  /\ stage = "gather"
  /\ stage' = IF hushed THEN "between" ELSE "drain"
  /\ UNCHANGED <<mic, turn, said, buf, hushed, speech, player, busy, monitor, muted, conversation, whole>>

Gather ==
  /\ stage = "gather" /\ \A ph \in synths : ph[1] # turn
  /\ stage' = IF hushed THEN "between" ELSE "drain"
  /\ UNCHANGED <<mic, turn, said, buf, hushed, speech, player, busy, monitor, muted, conversation, whole>>

\* The queue is empty and the player not busy, which it is only a moment after it
\* has taken the last phrase.
Drain ==
  /\ stage = "drain" /\ toPlay = <<>> /\ ~ busy
  /\ stage' = "between"
  /\ UNCHANGED <<mic, turn, said, buf, hushed, speech, player, busy, monitor, muted, conversation, whole>>

\* The detector is stopped, and the file of the session is emptied to be written.
Return ==
  /\ stage = "between"
  /\ monitor' = "off" /\ hushed' = FALSE /\ sent' = 0
  /\ IF session # 0 THEN stage' = "saving" /\ saved' = 0
                    ELSE stage' = "top" /\ UNCHANGED saved
  /\ UNCHANGED <<mic, turn, said, buf, speech, player, busy, muted, session, opened,
                 whole, lost>>

\* It is written.
Save ==
  /\ stage = "saving"
  /\ stage' = "top" /\ saved' = session
  /\ UNCHANGED <<mic, turn, said, buf, hushed, speech, player, busy, monitor, muted, session, sent, opened,
                 whole, lost>>

-----------------------------------------------------------------------------
(* A phrase                                                                *)

\* A task goes on only where the loop awaits something.
Awaits == stage \notin {"cut", "between", "saving"}

\* The audio is there: the turn's detector is armed and the file queued, also when
\* the turn was interrupted or is over.  Of a turn that is over nobody asks the
\* detector.
Synth(ph) ==
  /\ Awaits /\ ph \in synths
  /\ synths' = synths \ {ph}
  /\ toPlay' = Append(toPlay, ph)
  /\ monitor' = IF BargeIn /\ monitor = "off" /\ ph[1] = turn /\ stage \notin {"top", "listen", "recorded"}
                THEN "armed" ELSE monitor
  /\ UNCHANGED <<stage, mic, turn, said, buf, hushed, player, busy, muted, files, played, again, dropped,
                 failed, conversation, whole>>

SynthFails(ph) ==
  /\ Awaits /\ ph \in synths
  /\ synths' = synths \ {ph} /\ files' = files \ {ph} /\ failed' = failed \cup {ph}
  /\ UNCHANGED <<stage, mic, turn, said, buf, hushed, toPlay, player, busy, monitor, muted, played, again,
                 dropped, conversation, whole>>

\* The user, or the loop's own voice, is heard for long enough.
Heard ==
  /\ monitor = "armed"
  /\ monitor' = "heard"
  /\ UNCHANGED <<stage, mic, turn, said, buf, hushed, speech, player, busy, muted, conversation, whole>>

-----------------------------------------------------------------------------
(* The player                                                              *)

Others == UNCHANGED <<stage, mic, turn, said, buf, hushed, synths, monitor, muted, dropped,
                      conversation, whole>>

Get ==
  /\ player.at = "wait" /\ toPlay # <<>>
  /\ player' = [at |-> "took", phrase |-> Head(toPlay)]
  /\ toPlay' = Tail(toPlay)
  /\ Others /\ UNCHANGED <<busy, files, played, again, failed>>

SetBusy ==
  /\ player.at = "took"
  /\ player' = [player EXCEPT !.at = "busy"] /\ busy' = TRUE
  /\ Others /\ UNCHANGED <<toPlay, files, played, again, failed>>

Play ==
  /\ player.at = "busy"
  /\ player' = [player EXCEPT !.at = "plays"]
  /\ played' = played \cup InHand /\ again' = (again \/ InHand \subseteq played)
  /\ Others /\ UNCHANGED <<toPlay, busy, files, failed>>

\* There is no player to start: the exception ends the thread, after which nobody
\* takes what is queued.
PlayFails ==
  /\ player.at = "busy"
  /\ player' = [at |-> "dead", phrase |-> <<>>] /\ busy' = FALSE
  /\ files' = files \ InHand /\ failed' = failed \cup InHand
  /\ Others /\ UNCHANGED <<toPlay, played, again>>

\* Fault: the player stays busy.
OverStaysBusy ==
  /\ player.at = "plays"
  /\ player' = [at |-> "wait", phrase |-> <<>>]
  /\ files' = files \ InHand
  /\ Others /\ UNCHANGED <<toPlay, busy, played, again, failed>>

\* At its end, or stopped.
Over ==
  /\ player.at = "plays"
  /\ player' = [at |-> "wait", phrase |-> <<>>] /\ busy' = FALSE
  /\ files' = files \ InHand
  /\ Others /\ UNCHANGED <<toPlay, played, again, failed>>

-----------------------------------------------------------------------------

\* The program ends; files of phrases stay behind, and a session that is not in
\* the file is gone.
Stops ==
  /\ stage' = "gone" /\ mic' = NoFrames /\ said' = 0 /\ buf' = FALSE /\ hushed' = FALSE
  /\ synths' = {} /\ toPlay' = <<>> /\ player' = [at |-> "wait", phrase |-> <<>>] /\ busy' = FALSE
  /\ monitor' = "off" /\ muted' = FALSE /\ files' = {}
  /\ played' = {} /\ again' = FALSE /\ dropped' = {} /\ failed' = {} /\ whole' = FALSE
  /\ session' = saved /\ sent' = 0
  /\ Loses({session} \ {0, saved})
  /\ UNCHANGED <<turn, saved>>

\* By Ctrl-C or a crash,
Kill == stage # "gone" /\ Stops

\* or by an exception that nobody catches: of a transcript that is none, of an
\* error status of the chat, whose text the handler reads from a stream that was
\* not read, or of the file of the session, also when it is empty by now.
Dies == stage \in {"recorded", "asks", "between", "saving"} /\ Stops

\* It is started again, with the session in the file.
StartAgain ==
  /\ stage = "gone"
  /\ stage' = "start"
  /\ UNCHANGED <<mic, turn, said, buf, hushed, speech, player, busy, monitor, muted,
                 session, sent, saved, opened, lost, whole>>

TurnStep ==
  \/ Greet \/ TurnBegins \/ NotUnderstood \/ Understood \/ Session \/ Token \/ Announce \/ ToolCall
  \/ Done \/ Closed \/ Broken \/ Interrupt \/ Discard \/ StopCurrent \/ Gather \/ Drain \/ Return \/ Save
  \/ Dies

TaskStep == \E ph \in synths : Synth(ph) \/ SynthFails(ph)

PlayerStep == Get \/ SetBusy \/ Play \/ PlayFails \/ Over

VoiceNext ==
  \/ Mute \/ Frame \/ GiveUp \/ TurnStep \/ ToolEnds \/ TaskStep \/ Heard \/ PlayerStep
  \/ Kill \/ StartAgain \/ Redeploy

\* The server's events, the audio and the end of the request come within their
\* timeouts, a sound has an end, threads run, and the microphone delivers its
\* frames.  Nothing is assumed of a tool of the Mac, which has no timeout, nor
\* that anybody starts the program again.
Fairness ==
  /\ WF_voiceVars(Frame \/ GiveUp \/ TurnStep) /\ WF_voiceVars(TaskStep)
  /\ WF_voiceVars(PlayerStep)

VoiceSpec == VoiceInit /\ [][VoiceNext]_voiceVars /\ Fairness

-----------------------------------------------------------------------------
(* Properties                                                              *)

\* A turn that was neither interrupted nor broken off ends only when everything
\* it had to say has sounded, or could not be fetched, or is what the player has
\* just taken: no task and no rest of the text is left behind.
SaysItAll ==
  stage \in {"between", "saving", "top", "listen", "recorded"} /\ whole /\ turn > 0 =>
    /\ ~ buf
    /\ \A k \in 1..said : <<turn, k>> \in played \cup failed \cup InHand

\* "Kill current audio and discard all queued items (for barge-in)": what the
\* interruption took from the queue is not heard, though the player takes from it
\* too, and nothing is heard twice.
Hushed ==
  /\ played \cap dropped = {}
  /\ ~ again

\* No phrase leaves its file behind, whether it was heard, interrupted or failed.
FilesGo == files = Alive

\* "Session id is persisted ... so memory carries across runs": over turns that fail
\* and runs that are stopped, a second conversation begins only when the server has
\* forgotten the session before, or when that one got lost before it was told, or
\* while it was not in the file.
OneConversation == \A i, j \in Remembered : i = j

\* An utterance and its turn come to an end, and the loop listens again, or waits
\* to be unmuted, whatever fails on the way.  Only a tool of the Mac that never ends
\* holds it up, or what is left in the queue when the player's thread has died,
\* unless the program has ended.
Idle == \/ stage = "top"
        \/ stage = "listen" /\ mic.rec = 0
HeldUp == \/ stage \in {"tool", "gone"}
          \/ stage = "drain" /\ player.at = "dead" /\ toPlay # <<>>
TurnEnds == ~ Idle ~> Idle \/ HeldUp

-----------------------------------------------------------------------------
(* Together                                                                *)

\* The player: everything once, nothing that was interrupted, no file left.
PlayerInv == VoiceTypeOK /\ SaysItAll /\ Hushed /\ FilesGo
=============================================================================
