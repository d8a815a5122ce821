------------------------------ MODULE VoiceCall ------------------------------
(***************************************************************************)
(* channels/voice: one telephone call over Twilio's Media Streams.  Twilio *)
(* sends a frame every 20 ms, also while a reply plays, and echoes a mark  *)
(* when the reply before it has been played.  handle_call takes the events *)
(* in order; while it transcribes, answers and speaks they wait on the     *)
(* wire.                                                                   *)
(*                                                                         *)
(* The counters are kept up to the value they are compared with.           *)
(***************************************************************************)
EXTENDS Naturals, Sequences

CONSTANTS
    MinSpeech, SilenceEnd, MaxSpeech, EchoTail,     \* the frames of the voice activity detection
    ReplyFrames,            \* how long a reply plays
    MaxWire, MaxPlaying     \* bounds

ASSUME VoiceAssumption ==
    /\ MinSpeech \in Nat \ {0} /\ SilenceEnd \in Nat \ {0} /\ MaxSpeech \in Nat
    /\ MaxSpeech >= MinSpeech + SilenceEnd /\ EchoTail \in Nat /\ ReplyFrames \in Nat \ {0}

VARIABLES
    wire,           \* events not yet taken: [ev, loud, during], the last two for frames
    playing,        \* Twilio: what is left to play of each reply queued there
    callPc,         \* "listen", "transcribe", "answer", "speak" or "over"
    collected, speech, silence, hasSpeech,      \* the buffer, in frames, and what is in it
    echo,           \* echo_suppress_frames
    replayed        \* history: does the buffer hold a frame heard while a reply played?

voiceVars == <<wire, playing, callPc, collected, speech, silence, hasSpeech, echo, replayed>>
buffer == <<collected, speech, silence, hasSpeech, replayed>>

Event(ev) == [ev |-> ev, loud |-> FALSE, during |-> FALSE]

VoiceInit ==
    /\ wire = <<Event("start")>> /\ playing = <<>> /\ callPc = "listen"
    /\ collected = 0 /\ speech = 0 /\ silence = 0 /\ hasSpeech = FALSE /\ echo = 0
    /\ replayed = FALSE

Least(m, n) == IF m < n THEN m ELSE n

----------------------------------------------------------------------------
(* Twilio. *)

\* 20 ms pass: a frame is sent, and the reply that plays comes nearer to its mark.
SendFrame ==
    /\ callPc # "over" /\ Len(wire) < MaxWire
    /\ \A i \in DOMAIN wire : wire[i].ev # "stop"
    /\ \E loud \in BOOLEAN :
        LET frame == [ev |-> "media", loud |-> loud, during |-> playing # <<>>] IN
        CASE playing = <<>> -> wire' = Append(wire, frame) /\ UNCHANGED playing
          [] playing # <<>> /\ Head(playing) > 1 ->
                wire' = Append(wire, frame) /\ playing' = <<Head(playing) - 1>> \o Tail(playing)
          [] OTHER -> wire' = wire \o <<frame, Event("mark")>> /\ playing' = Tail(playing)
    /\ UNCHANGED <<callPc, buffer, echo>>

HangUp ==
    /\ callPc # "over" /\ Len(wire) < MaxWire
    /\ \A i \in DOMAIN wire : wire[i].ev # "stop"
    /\ wire' = Append(wire, Event("stop"))
    /\ UNCHANGED <<playing, callPc, buffer, echo>>

----------------------------------------------------------------------------
(* handle_call. *)

Taking(e) == callPc = "listen" /\ wire # <<>> /\ Head(wire).ev = e /\ wire' = Tail(wire)

\* The greeting is spoken like any reply.
StartCall ==
    /\ Taking("start") /\ callPc' = "speak"
    /\ UNCHANGED <<playing, buffer, echo>>

\* As the code would be if a part of the detection went on counting.
ClearedCounting ==
    /\ collected' = 0 /\ speech' = 0 /\ hasSpeech' = FALSE /\ replayed' = FALSE
    /\ UNCHANGED silence

\* What is reset together when an utterance is taken, and at a mark.
Cleared ==
    /\ collected' = 0 /\ speech' = 0 /\ silence' = 0 /\ hasSpeech' = FALSE /\ replayed' = FALSE

\* As the code would be if a long utterance had to end in silence.
IsUtteranceAtSilence(c, sp, si, has) == has /\ sp >= MinSpeech /\ si >= SilenceEnd

\* end_of_speech or hard_cap.
IsUtterance(c, sp, si, has) ==
    \/ has /\ sp >= MinSpeech /\ si >= SilenceEnd
    \/ has /\ c >= MaxSpeech

\* A frame: dropped in the echo tail, otherwise collected and counted.
TakeFrame ==
    /\ Taking("media")
    /\ IF echo > 0
       THEN echo' = echo - 1 /\ UNCHANGED <<callPc, buffer>>
       ELSE LET f == Head(wire)
                c == Least(collected + 1, MaxSpeech)
                sp == IF f.loud THEN Least(speech + 1, MinSpeech) ELSE speech
                si == IF f.loud THEN 0 ELSE Least(silence + 1, SilenceEnd)
                has == hasSpeech \/ f.loud
            IN  /\ IF IsUtterance(c, sp, si, has)
                   THEN Cleared /\ callPc' = "transcribe"
                   ELSE /\ collected' = c /\ speech' = sp /\ silence' = si /\ hasSpeech' = has
                        /\ replayed' = (replayed \/ f.during)
                        /\ UNCHANGED callPc
                /\ UNCHANGED echo
    /\ UNCHANGED playing

\* The transcript, or "" on a timeout and on an error: then there is nothing to answer.
Transcribe ==
    /\ callPc = "transcribe" /\ callPc' \in {"answer", "listen"}
    /\ UNCHANGED <<wire, playing, buffer, echo>>

\* Feedback, an escalation, an answer or an apology; an escalation that raises ends the call.
Answer ==
    /\ callPc = "answer" /\ callPc' \in {"speak", "over"}
    /\ UNCHANGED <<wire, playing, buffer, echo>>

\* speak_reply: the audio and a mark are handed to Twilio, or there is no audio; then
\* ai_speaking is reset, whether or not the reply has been played.
SpeakReply ==
    /\ callPc = "speak" /\ callPc' = "listen"
    /\ \/ Len(playing) < MaxPlaying /\ playing' = Append(playing, ReplyFrames)
       \/ UNCHANGED playing
    /\ UNCHANGED <<wire, buffer, echo>>

TakeMark ==
    /\ Taking("mark") /\ Cleared /\ echo' = EchoTail
    /\ UNCHANGED <<playing, callPc>>

TakeStop ==
    /\ Taking("stop") /\ callPc' = "over"
    /\ UNCHANGED <<playing, buffer, echo>>

VoiceNext ==
    \/ SendFrame \/ HangUp \/ StartCall \/ TakeFrame \/ Transcribe \/ Answer \/ SpeakReply
    \/ TakeMark \/ TakeStop

VoiceSpec == VoiceInit /\ [][VoiceNext]_voiceVars

----------------------------------------------------------------------------
VoiceTypeOK ==
    /\ collected \in 0..MaxSpeech /\ speech \in 0..MinSpeech /\ silence \in 0..SilenceEnd
    /\ hasSpeech \in BOOLEAN /\ echo \in 0..EchoTail /\ Len(playing) <= MaxPlaying

(***************************************************************************)
(* No utterance that is complete waits in the buffer, whatever marks,      *)
(* replies and frames came between its frames; what is counted was         *)
(* collected: nothing is carried over from what was answered before; and   *)
(* frames heard while a reply played do not outlive the mark of the reply. *)
(***************************************************************************)
VoiceBufferIsSound ==
    /\ ~(hasSpeech /\ speech >= MinSpeech /\ silence >= SilenceEnd)
    /\ hasSpeech => collected < MaxSpeech /\ speech > 0
    /\ Least(speech + silence, MaxSpeech) <= collected
    /\ replayed => playing # <<>> \/ \E i \in DOMAIN wire : wire[i].ev = "mark"
============================================================================
