---------------------------- MODULE Integrations ----------------------------
(***************************************************************************)
(* Telegram chats and API keys of several users, and the Notion connection *)
(* of one of them.  A pairing code comes with an API key of its own; a bot *)
(* that sends the code binds its chat to the user and the key.  Requests   *)
(* read without locks and write at the end of their transaction.           *)
(***************************************************************************)
EXTENDS Naturals, Sequences, SequencesExt, FiniteSets

CONSTANTS
    Users, Chats,
    Codes,          \* bound: pairing codes, each made once, and the API keys they come with
    MaxBindings,    \* bound: rows of telegram_chat_bindings
    Workspaces,     \* Notion workspaces; each stands for the one page of it that is used
    Nobody

ASSUME IntegrationsAssumption ==
    /\ Nobody \notin Users \cup Chats \cup Codes \cup Workspaces
    /\ MaxBindings \in Nat

VARIABLES
    code,           \* telegram_pairing_codes
    revokedKeys,    \* api_keys with revoked_at
    bindings,       \* telegram_chat_bindings in the order of their insertion
    pairing,        \* requests that consume a code, by chat
    unpairing,      \* requests that revoke a binding, by user
    shared,         \* history: two requests consumed one code, or revoked what was paired anew
    connection,     \* external_connections of the Notion user
    seenPages,      \* pages of the last search
    moved,          \* history: a workspace followed another one without a disconnection
    exports         \* history: where pages were made, and with whose access

chatVars   == <<code, revokedKeys, bindings, pairing, unpairing, shared>>
notionVars == <<connection, seenPages, moved, exports>>
integrationVars == <<chatVars, notionVars>>

-----------------------------------------------------------------------------

PairingCode == [state : {"none", "open", "consumed"}, owner : Users \cup {Nobody}, old : BOOLEAN]
Binding     == [chat : Chats, owner : Users, key : Codes, live : BOOLEAN]
Connection  == [on : BOOLEAN, workspace : Workspaces \cup {Nobody},
                parent : Workspaces \cup {Nobody}, readable : BOOLEAN]

IntegrationsTypeOK ==
    /\ code \in [Codes -> PairingCode]
    /\ revokedKeys \subseteq Codes
    /\ bindings \in Seq(Binding)
    /\ pairing \in [Chats -> Codes \cup {Nobody}]
    /\ unpairing \in [Users -> 0..MaxBindings]
    /\ shared \in BOOLEAN
    /\ connection \in Connection
    /\ seenPages \subseteq Workspaces
    /\ moved \in BOOLEAN
    /\ exports \subseteq Workspaces \X Workspaces

NoConnection == [on |-> FALSE, workspace |-> Nobody, parent |-> Nobody, readable |-> FALSE]

IntegrationsInit ==
    /\ code = [c \in Codes |-> [state |-> "none", owner |-> Nobody, old |-> FALSE]]
    /\ revokedKeys = {} /\ bindings = <<>>
    /\ pairing = [t \in Chats |-> Nobody] /\ unpairing = [u \in Users |-> 0]
    /\ shared = FALSE
    /\ connection = NoConnection /\ seenPages = {} /\ moved = FALSE /\ exports = {}

-----------------------------------------------------------------------------
(* Telegram.                                                               *)

CreateCode(u, c) ==
    /\ code[c].state = "none"
    /\ code' = [code EXCEPT ![c] = [state |-> "open", owner |-> u, old |-> FALSE]]
    /\ UNCHANGED <<revokedKeys, bindings, pairing, unpairing, shared, notionVars>>

\* TELEGRAM_PAIRING_TTL is over.
CodeAges(c) ==
    /\ code[c].state = "open" /\ ~code[c].old
    /\ code' = [code EXCEPT ![c].old = TRUE]
    /\ UNCHANGED <<revokedKeys, bindings, pairing, unpairing, shared, notionVars>>

\* ConsumeTelegramPairingCodeUseCase reads the code ...
Usable(c) == code[c].state = "open" /\ ~code[c].old

PairRead(chat, c) ==
    /\ pairing[chat] = Nobody /\ Usable(c)
    /\ pairing' = [pairing EXCEPT ![chat] = c]
    /\ UNCHANGED <<code, revokedKeys, bindings, unpairing, shared, notionVars>>

\* ... and consumes it.  The unique index on the active bindings of a chat turns the second
\* pairing of a chat into an update, whoever the chat belonged to; the key of the first stays.
LiveAt(chat) == {i \in DOMAIN bindings : bindings[i].chat = chat /\ bindings[i].live}

Bind(chat, c) ==
    LET b == [chat |-> chat, owner |-> code[c].owner, key |-> c, live |-> TRUE] IN
    IF LiveAt(chat) = {} THEN Append(bindings, b)
    ELSE [i \in DOMAIN bindings |-> IF i \in LiveAt(chat) THEN b ELSE bindings[i]]

PairWrite(chat) ==
    LET c == pairing[chat] IN
    /\ c # Nobody
    /\ pairing' = [pairing EXCEPT ![chat] = Nobody]
    /\ \/ /\ code[c].state # "none"
          /\ LiveAt(chat) = {} => Len(bindings) < MaxBindings
          /\ code' = [code EXCEPT ![c].state = "consumed"]
          /\ bindings' = Bind(chat, c)
          /\ shared' = \/ shared \/ code[c].state = "consumed"
                       \/ \E u \in Users : unpairing[u] \in LiveAt(chat)
       \/ UNCHANGED <<code, bindings, shared>>
    /\ UNCHANGED <<revokedKeys, unpairing, notionVars>>

\* RevokeTelegramBindingUseCase reads a binding of the user, active or not, ...
UnpairRead(u, i) ==
    /\ unpairing[u] = 0 /\ i \in DOMAIN bindings /\ bindings[i].owner = u
    /\ unpairing' = [unpairing EXCEPT ![u] = i]
    /\ UNCHANGED <<code, revokedKeys, bindings, pairing, shared, notionVars>>

\* Mutant: the key of the binding is left alone.
KeysToRevoke_None(u, i) == {}

\* ... marks the row, reads it back, and revokes the key it finds there if it is the user's.
KeysToRevoke(u, i) == {c \in {bindings[i].key} : code[c].owner = u}

UnpairWrite(u) ==
    LET i == unpairing[u] IN
    /\ i # 0
    /\ bindings' = [bindings EXCEPT ![i].live = FALSE]
    /\ revokedKeys' = revokedKeys \cup KeysToRevoke(u, i)
    /\ unpairing' = [unpairing EXCEPT ![u] = 0]
    /\ UNCHANGED <<code, pairing, shared, notionVars>>

\* RevokeApiKeyUseCase: a binding with the key goes on; IngestTelegramItemUseCase does not ask.
RevokeKey(u, c) ==
    /\ code[c].owner = u
    /\ revokedKeys' = revokedKeys \cup {c}
    /\ UNCHANGED <<code, bindings, pairing, unpairing, shared, notionVars>>

-----------------------------------------------------------------------------
(* Notion.                                                                 *)

\* CompleteNotionConnectionUseCase: the row of the user is updated when there is one, and its
\* settings stay.
Connect(w) ==
    /\ connection' = [connection EXCEPT !.on = TRUE, !.workspace = w, !.readable = TRUE]
    /\ moved' = (moved \/ ~(seenPages \cup {connection.workspace} \subseteq {w, Nobody}))
    /\ UNCHANGED <<chatVars, seenPages, exports>>

Disconnect ==
    /\ connection' = NoConnection
    /\ seenPages' = {}
    /\ UNCHANGED <<chatVars, moved, exports>>

\* The key version of FernetTokenCipher changes: what was sealed before cannot be read.
ChangeSecret ==
    /\ connection.readable
    /\ connection' = [connection EXCEPT !.readable = FALSE]
    /\ UNCHANGED <<chatVars, seenPages, moved, exports>>

\* SearchNotionPagesUseCase.
SearchPages ==
    /\ connection.readable
    /\ seenPages' = {connection.workspace}
    /\ UNCHANGED <<chatVars, connection, moved, exports>>

\* UpdateNotionConnectionSettingsUseCase takes any page; the owner chooses among those seen.
SetParent(p) ==
    /\ connection.on /\ p \in seenPages \cup {Nobody}
    /\ connection' = [connection EXCEPT !.parent = p]
    /\ UNCHANGED <<chatVars, seenPages, moved, exports>>

\* ExportMarkdownToNotionUseCase with the parent of the settings.
ExportPage ==
    /\ connection.readable /\ connection.parent # Nobody
    /\ exports' = exports \cup {<<connection.workspace, connection.parent>>}
    /\ UNCHANGED <<chatVars, connection, seenPages, moved>>

-----------------------------------------------------------------------------

ChatsNext ==
    \/ \E u \in Users, c \in Codes : CreateCode(u, c) \/ RevokeKey(u, c)
    \/ \E c \in Codes : CodeAges(c)
    \/ \E chat \in Chats : (\E c \in Codes : PairRead(chat, c)) \/ PairWrite(chat)
    \/ \E u \in Users : (\E i \in 1..MaxBindings : UnpairRead(u, i)) \/ UnpairWrite(u)

NotionNext ==
    \/ \E w \in Workspaces : Connect(w)
    \/ \E p \in Workspaces \cup {Nobody} : SetParent(p)
    \/ Disconnect \/ ChangeSecret \/ SearchPages \/ ExportPage

IntegrationsNext == ChatsNext \/ NotionNext

IntegrationsSpec == IntegrationsInit /\ [][IntegrationsNext]_integrationVars

-----------------------------------------------------------------------------

\* A pairing code binds one chat, and a chat that was unpaired leaves no usable key behind: the
\* key of a binding that is not active is revoked.  Two bots that send one code at the same
\* time both get a binding, for nothing locks the code between its reading and its writing; and
\* an unpairing that overlaps a new pairing of the chat ends that one.
PairingIsExclusive ==
    ~shared => /\ \A i, j \in DOMAIN bindings : bindings[i].key = bindings[j].key => i = j
               /\ \A i \in DOMAIN bindings : ~bindings[i].live => bindings[i].key \in revokedKeys

\* Pages go to the workspace whose access is used, although the parent page and the access are
\* set apart from each other: only a connection to another workspace on top of the old one
\* keeps the old parent.
ExportsStayInWorkspace == ~moved => \A e \in exports : e[1] = e[2]

\* Access that was given to a bot or to an export works where it was given, and nowhere else.
AccessIsBound == PairingIsExclusive /\ ExportsStayInWorkspace

=============================================================================
