------------------------------ MODULE TelegramBot ------------------------------
(***************************************************************************)
(* scripts/telegram_webhook_bot.py between Telegram, which delivers an     *)
(* update until it is answered with 200, and the API of Conserium.  One    *)
(* chat; the API is reduced to the code, the binding of the chat and the   *)
(* documents made from its messages (Integrations and ExternalIntake have  *)
(* the rest).  An edited message comes as another update of the same id.   *)
(***************************************************************************)
EXTENDS Naturals, FiniteSets

CONSTANTS
    Items,         \* messages to be saved; a message is written, and edited at most once
    PairMessages,  \* messages "/pair CODE", all with the one code there is
    MaxBotFaults   \* bound: calls and answers that fail

ASSUME BotAssumption == Items \cap PairMessages = {} /\ MaxBotFaults \in Nat

VARIABLES
    update,     \* the updates, by message and version
    pairCode,   \* the pairing code: open, or consumed by this chat, by another, or expired
    bound,      \* the chat is bound
    stored,     \* the version of a message its document was made from, or 0
    replies,    \* what the chat was told, about which update
    disturbed,  \* history: updates that failed half way, or were answered by a failing server
    botFaults   \* how much of the bound is used up

botVars == <<update, pairCode, bound, stored, replies, disturbed, botFaults>>

-----------------------------------------------------------------------------

Updates == (Items \X {1, 2}) \cup (PairMessages \X {1})
Waits(u) == update[u].pc = "queued"
NoUpdate == [pc |-> "none", reply |-> "none"]

BotInit ==
    /\ update = [u \in Updates |-> NoUpdate]
    /\ pairCode = "open" /\ bound = FALSE
    /\ stored = [m \in Items |-> 0]
    /\ replies = {} /\ disturbed = {} /\ botFaults = 0

BotFault == botFaults < MaxBotFaults /\ botFaults' = botFaults + 1

\* The owner writes a message, or edits one that Telegram has announced.
Write(u) ==
    /\ update[u].pc = "none"
    /\ u[2] = 2 => update[<<u[1], 1>>].pc # "none"
    /\ update' = [update EXCEPT ![u].pc = "queued"]
    /\ UNCHANGED <<pairCode, bound, stored, replies, disturbed, botFaults>>

\* telegram_webhook raises: Telegram gets a 500 and delivers the update again.
Raise(u) ==
    /\ BotFault
    /\ update' = [update EXCEPT ![u] = [pc |-> "queued", reply |-> "none"]]
    /\ disturbed' = disturbed \cup {u}

Reply(u, text) == update' = [update EXCEPT ![u] = [pc |-> "reply", reply |-> text]]

\* idempotency_key has the ids of the chat and the message alone: what was made of an earlier
\* version stays.
Key(u) == IF stored[u[1]] # 0 THEN stored[u[1]] ELSE u[2]

\* send_to_conserium.  404 says that the chat is not bound; any other error is raised, after
\* the document was made or before.
SendItem(u) ==
    /\ u[1] \in Items /\ Waits(u)
    /\ \/ /\ bound
          /\ stored' = [stored EXCEPT ![u[1]] = Key(u)]
          /\ \/ Reply(u, "accepted") /\ UNCHANGED <<disturbed, botFaults>>
             \/ Raise(u)
       \/ ~bound /\ Reply(u, "unpaired") /\ UNCHANGED <<stored, disturbed, botFaults>>
       \/ Raise(u) /\ UNCHANGED stored
    /\ UNCHANGED <<pairCode, bound, replies>>

\* consume_pairing_code takes every answer of 400 and above, a failing server's too, for a
\* refusal; a call without an answer is raised.
SendCode(u) ==
    /\ u[1] \in PairMessages /\ Waits(u)
    /\ \/ /\ pairCode = "open" /\ pairCode' = "ours" /\ bound' = TRUE
          /\ \/ Reply(u, "paired") /\ UNCHANGED <<disturbed, botFaults>>
             \/ Raise(u)
       \/ /\ UNCHANGED <<pairCode, bound>>
          /\ \/ pairCode # "open" /\ Reply(u, "invalid") /\ UNCHANGED <<disturbed, botFaults>>
             \/ BotFault /\ Reply(u, "invalid") /\ disturbed' = disturbed \cup {u}
             \/ Raise(u)
    /\ UNCHANGED <<stored, replies>>

\* reply_to_telegram raises when there is no answer, whether the chat shows the reply or not;
\* an answer with an error passes.  Then 200, which may be late.
TellChat(u) ==
    /\ update[u].pc = "reply"
    /\ \E shown \in BOOLEAN :
          /\ replies' = IF shown THEN replies \cup {<<u, update[u].reply>>} ELSE replies
          /\ \/ Raise(u)
             \/ /\ shown \/ botFaults < MaxBotFaults
                /\ update' = [update EXCEPT ![u].pc = "done"]
                /\ botFaults' = IF shown THEN botFaults ELSE botFaults + 1
                /\ UNCHANGED disturbed
    /\ UNCHANGED <<pairCode, bound, stored>>

\* The owner revokes the binding; the code ages, or is used in another chat.
Unbind == bound /\ bound' = FALSE
          /\ UNCHANGED <<update, pairCode, stored, replies, disturbed, botFaults>>
CodeGoes ==
    /\ pairCode = "open" /\ pairCode' \in {"other", "expired"}
    /\ UNCHANGED <<update, bound, stored, replies, disturbed, botFaults>>

BotNext ==
    \/ \E u \in Updates : Write(u) \/ SendItem(u) \/ SendCode(u) \/ TellChat(u)
    \/ Unbind \/ CodeGoes

BotSpec == BotInit /\ [][BotNext]_botVars

-----------------------------------------------------------------------------
(* Properties.                                                             *)

Told(u, text) == <<u, text>> \in replies \/ update[u] = [pc |-> "reply", reply |-> text]

BotTypeOK ==
    /\ update \in [Updates -> [pc : {"none", "queued", "reply", "done"},
                               reply : {"none", "accepted", "unpaired", "paired", "invalid"}]]
    /\ pairCode \in {"open", "ours", "other", "expired"} /\ bound \in BOOLEAN
    /\ stored \in [Items -> 0..2] /\ botFaults \in 0..MaxBotFaults

\* What the chat is told is so: an item that is accepted is saved; a chat that is paired is
\* bound until the owner revokes it; a code that is refused was not this chat's, unless another
\* message of the chat, or the same one before it failed, used it.
RepliesAreTrue ==
    /\ \A u \in Updates : Told(u, "accepted") => stored[u[1]] # 0
    /\ \A u \in Updates : Told(u, "paired") => pairCode = "ours"
    /\ \A u \in Updates \ disturbed :
          Told(u, "invalid") =>
             \/ pairCode \in {"other", "expired"}
             \/ \E v \in Updates \ {u} : update[v].reply = "paired" \/ v \in disturbed

\* An update that Telegram need not deliver again was saved, or had its answer.
NothingIsDropped ==
    \A u \in Updates :
        update[u].pc = "done" /\ u[1] \in Items =>
            stored[u[1]] # 0 \/ update[u].reply = "unpaired"

BotIsHonest == RepliesAreTrue /\ NothingIsDropped

=============================================================================
