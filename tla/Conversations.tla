---------------------------- MODULE Conversations ----------------------------
(***************************************************************************)
(* The ways customers talk to the product: the chat channels and telephone *)
(* calls.  Both hand a text to the same feedback, escalation and pipeline  *)
(* and share no state of their own.                                        *)
(***************************************************************************)
EXTENDS Channels, VoiceCall

(***************************************************************************)
(* Messages and calls (the webhooks, handle_call): customers are kept      *)
(* apart, and no utterance of a call waits unanswered.                     *)
(***************************************************************************)
ConversationsAreSound == ChannelsAreSound /\ VoiceBufferIsSound
==============================================================================
