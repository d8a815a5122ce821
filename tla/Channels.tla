------------------------------ MODULE Channels ------------------------------
(***************************************************************************)
(* The chat channels: the webhooks of the API, the WhatsApp, Telegram and  *)
(* Discord adapters and the feedback that weighs the employees' memory.    *)
(*                                                                         *)
(* A webhook is an async function that calls its adapter synchronously: a  *)
(* server process handles one delivery at a time, several processes handle *)
(* theirs concurrently.  A provider delivers again what was not answered   *)
(* with success, or not in time.  A payload of Meta may hold several       *)
(* messages; the first one that raises ends the request.                   *)
(*                                                                         *)
(* A chat is <<channel, id>>: two channels may use one id.  A message is   *)
(* [chat, kind]: what the adapter tells apart in a text.                   *)
(***************************************************************************)
EXTENDS Integers, Sequences, FiniteSets

CONSTANTS
    Servers,            \* processes of the API
    Chats, Entries,     \* chats, and the entries of employee_memory
    Payloads,           \* what a provider may send: [sign, messages]
    OwnerChats,         \* chats whose "YES <id>" is a decision
    ChannelRoles, IntentRoles, SupportRole,     \* roles, INTENT_SAFE_ROLES, DEFAULT_ROLE
    MaxImportance,      \* importance runs from 1 to this, in steps of the weight
    MaxSent, MaxAgain, MaxChannelFaults, MaxRoleChanges     \* bounds

ChannelOf(chat) == chat[1]
ChannelNames == {ChannelOf(c) : c \in Chats}

Messages == [chat : Chats,
             kind : {"question", "good", "bad", "approval", "human", "empty", "start"}]

\* Each channel has a webhook of its own: what one payload holds is of one channel.
ASSUME ChannelsAssumption ==
    /\ IntentRoles \subseteq ChannelRoles /\ SupportRole \in IntentRoles
    /\ MaxImportance \in Nat \ {0}
    /\ \A p \in Payloads :
        /\ p.messages \in Seq(Messages) /\ p.messages # <<>>
        /\ \A i \in DOMAIN p.messages :
            ChannelOf(p.messages[i].chat) = ChannelOf(p.messages[1].chat)

VARIABLES
    provider, unsigned,     \* WHATSAPP_PROVIDER and the opt-outs of signature checks
    server,         \* per process: the delivery it handles
    undone,         \* deliveries the provider will repeat
    replyLog,       \* role_reply_log: chat -> the entries its last role reply used
    importance,     \* employee_memory.importance
    roleOf,         \* channel_role_config, SupportRole where it has no row
    sent, again, channelFaults, roleChanges,
    fed,            \* history: <<chat, entry>>, entry was used in an answer to chat
    nudged          \* history: <<chat, entry>>, feedback in chat moved entry

chanVars == <<provider, unsigned, server, undone, replyLog, importance, roleOf, sent, again,
              channelFaults, roleChanges, fed, nudged>>
history == <<fed, nudged>>
config == <<provider, unsigned>>

Waiting == [pc |-> "waiting", payload |-> <<>>, left |-> <<>>, used |-> {},
            role |-> SupportRole, own |-> TRUE, answer |-> FALSE]

ChanInit ==
    /\ provider \in {"twilio", "meta"} /\ unsigned \in BOOLEAN
    /\ server = [s \in Servers |-> Waiting]
    /\ undone = {} /\ replyLog = [k \in {} |-> {}]
    /\ importance = [e \in Entries |-> MaxImportance]
    /\ roleOf = [c \in ChannelNames |-> SupportRole]
    /\ sent = 0 /\ again = 0 /\ channelFaults = 0 /\ roleChanges = 0
    /\ fed = {} /\ nudged = {}

----------------------------------------------------------------------------
(* Handling one delivery. *)

\* A message without text is passed over: what is left from the next text on.
WithText(messages) ==
    LET texts == {i \in DOMAIN messages : messages[i].kind # "empty"} IN
    IF texts = {} THEN <<>>
    ELSE SubSeq(messages, CHOOSE i \in texts : \A j \in texts : i <= j, Len(messages))

At(s, pc) == server[s].pc = pc
Msg(s) == Head(server[s].left)
Goes(s, pc) == server' = [server EXCEPT ![s].pc = pc]

\* The message is done with: the next one of the payload, or success.
NextMessage(s) ==
    LET rest == WithText(Tail(server[s].left)) IN
    server' = [server EXCEPT ![s] =
                IF rest = <<>> THEN Waiting
                ELSE [@ EXCEPT !.pc = "approval", !.left = rest, !.answer = FALSE]]

\* An exception leaves the handler: 500, and the provider will try again.
HandlerRaises(s) ==
    /\ channelFaults < MaxChannelFaults /\ channelFaults' = channelFaults + 1
    /\ undone' = undone \cup {server[s].payload}
    /\ server' = [server EXCEPT ![s] = Waiting]

\* handle_incoming_message of each adapter: what it tries with a text, one after the other.
WhatsappSteps == <<"approval", "feedback", "escalate", "ask">>
TelegramSteps == <<"approval", "feedback", "escalate", "start", "ask">>
DiscordSteps == <<"approval", "feedback", "escalate", "ask">>

Steps(channel) == CASE channel = "whatsapp" -> WhatsappSteps
                    [] channel = "telegram" -> TelegramSteps
                    [] OTHER -> DiscordSteps

\* The step does not apply to the text: the adapter tries the next one.
Onward(s) ==
    LET steps == Steps(ChannelOf(Msg(s).chat))
        here == CHOOSE i \in DOMAIN steps : steps[i] = server[s].pc
    IN  Goes(s, steps[here + 1])

\* As the code would be if a signature were checked only when there is one.
WhatsappAcceptsBlank(sign) == sign # "forged"

\* Twilio's or Meta's signature; without one only when the opt-out is set.
WhatsappAccepts(sign) == sign = "valid" \/ (sign = "none" /\ unsigned)

\* The secret token; unsigned stands for no secret configured and the opt-out set.
TelegramAccepts(sign) == sign = "valid" \/ unsigned

DiscordAccepts(sign) == sign = "valid"

\* What each webhook hands to its adapter.  Telegram's passes a message without text on.
WhatsappTakes(payload) == IF WhatsappAccepts(payload.sign) THEN WithText(payload.messages) ELSE <<>>
TelegramTakes(payload) == IF TelegramAccepts(payload.sign) THEN payload.messages ELSE <<>>
DiscordTakes(payload) == IF DiscordAccepts(payload.sign) THEN WithText(payload.messages) ELSE <<>>

Takes(payload) ==
    CASE ChannelOf(payload.messages[1].chat) = "whatsapp" -> WhatsappTakes(payload)
      [] ChannelOf(payload.messages[1].chat) = "telegram" -> TelegramTakes(payload)
      [] OTHER -> DiscordTakes(payload)

Webhook(s, payload) ==
    /\ At(s, "waiting")
    /\ Len(payload.messages) > 1 =>
            provider = "meta" /\ ChannelOf(payload.messages[1].chat) = "whatsapp"
    /\ IF Takes(payload) # <<>>
       THEN server' = [server EXCEPT ![s] = [Waiting EXCEPT !.pc = "approval", !.payload = payload,
                                                            !.left = Takes(payload)]]
       ELSE UNCHANGED server
    /\ UNCHANGED <<replyLog, importance, roleOf, channelFaults, roleChanges, history, config>>

Deliver(s) ==
    /\ sent < MaxSent /\ sent' = sent + 1
    /\ \E p \in Payloads : Webhook(s, p)
    /\ UNCHANGED <<undone, again>>

\* Delivered again: it failed, or its answer came too late.
Redeliver(s) ==
    /\ again < MaxAgain /\ again' = again + 1
    /\ \E p \in undone \cup {server[x].payload : x \in {y \in Servers : ~At(y, "waiting")}} :
        /\ Webhook(s, p)
        /\ undone' = undone \ {p}
    /\ UNCHANGED sent

\* process_approval_from and the reply to it are in one try: what raises in either is logged,
\* and the text goes on as any other.  A text that is empty is answered before it.
CheckApproval(s) ==
    /\ At(s, "approval")
    /\ CASE Msg(s).kind = "empty" -> Goes(s, "reply") /\ UNCHANGED channelFaults
         [] Msg(s).kind = "approval" /\ Msg(s).chat \in OwnerChats ->
                \/ NextMessage(s) /\ UNCHANGED channelFaults
                \/ /\ channelFaults < MaxChannelFaults /\ channelFaults' = channelFaults + 1
                   /\ Onward(s)
         [] OTHER -> Onward(s) /\ UNCHANGED channelFaults
    /\ UNCHANGED <<undone, replyLog, importance, roleOf, sent, again, roleChanges, history, config>>

\* As the code would be if replies were remembered per channel.
ReplyKeyChannel(chat) == ChannelOf(chat)

\* role_reply_log has one row per channel and chat_id.
ReplyKey(chat) == chat

LastReply(chat) == IF ReplyKey(chat) \in DOMAIN replyLog THEN replyLog[ReplyKey(chat)] ELSE {}

\* reinforce_memories: importance moves by one weight, between the least and the greatest.
Reinforced(ids, good) ==
    [e \in Entries |->
        IF e \notin ids THEN importance[e]
        ELSE IF good THEN (IF importance[e] < MaxImportance THEN importance[e] + 1 ELSE MaxImportance)
        ELSE (IF importance[e] > 1 THEN importance[e] - 1 ELSE 1)]

\* A feedback command: the last reply's entries are moved; an error of the database moves none.
TakeFeedback(s) ==
    LET chat == Msg(s).chat
        ids == LastReply(chat) IN
    /\ At(s, "feedback")
    /\ IF Msg(s).kind \notin {"good", "bad"}
       THEN /\ Onward(s)
            /\ UNCHANGED <<importance, nudged, channelFaults>>
       ELSE /\ Goes(s, "reply")
            /\ \/ /\ importance' = Reinforced(ids, Msg(s).kind = "good")
                  /\ nudged' = nudged \cup ({chat} \X ids)
                  /\ UNCHANGED channelFaults
               \/ /\ channelFaults < MaxChannelFaults /\ channelFaults' = channelFaults + 1
                  /\ UNCHANGED <<importance, nudged>>
    /\ UNCHANGED <<undone, replyLog, roleOf, sent, again, roleChanges, fed, config>>

\* escalate_to_owner: a request for a human goes to the autonomy gate, which may decline it.
Escalate(s) ==
    /\ At(s, "escalate")
    /\ \/ Msg(s).kind = "human" /\ Goes(s, "reply") /\ UNCHANGED <<channelFaults, undone>>
       \/ Msg(s).kind = "human" /\ HandlerRaises(s)
       \/ Onward(s) /\ UNCHANGED <<channelFaults, undone>>
    /\ UNCHANGED <<replyLog, importance, roleOf, sent, again, roleChanges, history, config>>

Welcome(s) ==
    /\ At(s, "start")
    /\ IF Msg(s).kind = "start" THEN Goes(s, "reply") ELSE Onward(s)
    /\ UNCHANGED <<undone, replyLog, importance, roleOf, sent, again, channelFaults, roleChanges, history, config>>

\* As the code would be if every role could be named by a message.
IntentRoleAny == ChannelRoles

\* detect_intent_role: only roles that face customers.
IntentRole == IntentRoles

\* get_channel_role: the row's role, or the default when it cannot be read.
ChannelRole(channel) == {roleOf[channel], SupportRole}

\* ask with the resolved role: an answer that used some entries, or an apology.
AskPipeline(s) ==
    LET channel == ChannelOf(Msg(s).chat) IN
    /\ At(s, "ask")
    /\ \/ /\ \E byIntent \in BOOLEAN, used \in SUBSET Entries :
             \E role \in IF byIntent THEN IntentRole ELSE ChannelRole(channel) :
                server' = [server EXCEPT ![s].pc = "record", ![s].used = used, ![s].role = role,
                                         ![s].own = (role = roleOf[channel])]
          /\ UNCHANGED channelFaults
       \/ /\ channelFaults < MaxChannelFaults /\ channelFaults' = channelFaults + 1
          /\ server' = [server EXCEPT ![s].pc = "reply", ![s].answer = TRUE]
    /\ UNCHANGED <<undone, replyLog, importance, roleOf, sent, again, roleChanges, history, config>>

\* record_last_reply: nothing is written for an answer that used no entry.
RecordLastReply(s) ==
    LET chat == Msg(s).chat
        used == server[s].used IN
    /\ At(s, "record")
    /\ server' = [server EXCEPT ![s].pc = "reply", ![s].answer = TRUE, ![s].used = {},
                              ![s].role = SupportRole, ![s].own = TRUE]
    /\ \/ /\ replyLog' = IF used = {} THEN replyLog
                         ELSE [k \in DOMAIN replyLog \cup {ReplyKey(chat)} |->
                                 IF k = ReplyKey(chat) THEN used ELSE replyLog[k]]
          /\ UNCHANGED channelFaults
       \/ /\ used # {} /\ channelFaults < MaxChannelFaults /\ channelFaults' = channelFaults + 1
          /\ UNCHANGED replyLog
    /\ fed' = fed \cup ({chat} \X used)
    /\ UNCHANGED <<undone, importance, roleOf, sent, again, roleChanges, nudged, config>>

\* The sender returns, whether or not the provider took the message, or raises; then the
\* workflows of the channel are called after an answer, which never raises.
SendReply(s) ==
    /\ At(s, "reply")
    /\ \/ /\ IF server[s].answer THEN Goes(s, "workflows") ELSE NextMessage(s)
          /\ UNCHANGED <<channelFaults, undone>>
       \/ HandlerRaises(s)
    /\ UNCHANGED <<replyLog, importance, roleOf, sent, again, roleChanges, history, config>>

CallWorkflows(s) ==
    /\ At(s, "workflows")
    /\ NextMessage(s)
    /\ UNCHANGED <<undone, replyLog, importance, roleOf, sent, again, channelFaults, roleChanges, history, config>>

----------------------------------------------------------------------------
\* set_channel_role: the owner's choice for a channel, of any role.
SetChannelRole ==
    /\ roleChanges < MaxRoleChanges /\ roleChanges' = roleChanges + 1
    /\ \E c \in ChannelNames, r \in ChannelRoles : r # roleOf[c] /\ roleOf' = [roleOf EXCEPT ![c] = r]
    /\ UNCHANGED <<server, undone, replyLog, importance, sent, again, channelFaults, history, config>>

ChanNext ==
    \/ SetChannelRole
    \/ \E s \in Servers :
        \/ Deliver(s) \/ Redeliver(s) \/ CheckApproval(s) \/ TakeFeedback(s) \/ Escalate(s) \/ Welcome(s)
        \/ AskPipeline(s) \/ RecordLastReply(s) \/ SendReply(s) \/ CallWorkflows(s)

ChanSpec == ChanInit /\ [][ChanNext]_chanVars

----------------------------------------------------------------------------
ChanTypeOK ==
    /\ importance \in [Entries -> 1..MaxImportance]
    /\ roleOf \in [ChannelNames -> ChannelRoles] /\ undone \subseteq Payloads

\* Feedback in a chat moves only entries that answers in this very chat were made of.
FeedbackStaysInItsChat == nudged \subseteq fed

\* Nothing is handled that the provider has not signed, but on the owner's opt-out, and
\* Discord has none.
OnlySignedIsHandled ==
    \A s \in Servers : \/ At(s, "waiting") \/ server[s].payload.sign = "valid"
                       \/ unsigned /\ ChannelOf(Msg(s).chat) # "discord"

\* A text can choose its role only among those that face customers; any other is the owner's choice.
RolesAreTheOwners == \A s \in Servers : server[s].role \in IntentRoles \/ server[s].own

(***************************************************************************)
(* The channels keep customers apart, whatever is delivered how often and  *)
(* in which order by however many processes.                               *)
(***************************************************************************)
ChannelsAreSound == FeedbackStaysInItsChat /\ OnlySignedIsHandled /\ RolesAreTheOwners
============================================================================
