------------------------------ MODULE Sessions ------------------------------
(***************************************************************************)
(* The sessions of one user.  A refresh token is a signed record of the    *)
(* user and the second, so two that are issued in one second are the same  *)
(* token.  Redis has a key for every token that may still be exchanged;    *)
(* the exchange takes the key and stores its successor in two calls.       *)
(***************************************************************************)
EXTENDS Naturals, FiniteSets

CONSTANTS
    Devices,      \* where the user signs in, each with a session of its own
    MaxSecond,    \* bound: the last second of the clock
    NoToken

ASSUME SessionsAssumption == MaxSecond \in Nat /\ NoToken \notin Nat

VARIABLES
    second,       \* the clock of JWTService
    keys,         \* Redis: "refresh:" keys with the user as their value
    session,      \* the sessions, as the devices know them
    account,      \* the row of the user
    sweep,        \* a sign-out everywhere
    exchanged,    \* history: tokens that have been exchanged
    lapsed,       \* history: sessions whose token has lapsed or was swept
    twins,        \* history: one token was issued twice
    out           \* history: sessions that a sign-out everywhere was to end

sessionVars == <<second, keys, session, account, sweep, exchanged, lapsed, twins, out>>

-----------------------------------------------------------------------------

Token   == 0..MaxSecond
Session == [pc : {"out", "issue", "in"}, token : Token \cup {NoToken}]

SessionsTypeOK ==
    /\ second \in Token
    /\ keys \subseteq Token
    /\ session \in [Devices -> Session]
    /\ account \in {"none", "active", "deleted"}
    /\ sweep \in [pc : {"off", "scan", "delete"}, found : SUBSET Token]
    /\ exchanged \subseteq Token /\ lapsed \subseteq Devices /\ twins \in BOOLEAN
    /\ out \subseteq Devices

SignedOut == [pc |-> "out", token |-> NoToken]
HeldBy(tokens) == {d \in Devices : session[d].pc = "in" /\ session[d].token \in tokens}
NoSweep   == [pc |-> "off", found |-> {}]

SessionsInit ==
    /\ second = 0 /\ keys = {}
    /\ session = [d \in Devices |-> SignedOut]
    /\ account = "none"
    /\ sweep = NoSweep
    /\ exchanged = {} /\ lapsed = {} /\ twins = FALSE /\ out = {}

\* Register, login or an OAuth callback: the row is read, or committed, before the tokens are
\* issued.
Enter(d) ==
    /\ session[d].pc = "out" /\ account # "deleted"
    /\ account' = "active"
    /\ session' = [session EXCEPT ![d].pc = "issue"]
    /\ out' = out \ {d}
    /\ UNCHANGED <<second, keys, sweep, exchanged, twins, lapsed>>

\* RefreshTokenUseCase: GETDEL takes the key, so that a token is exchanged once.
TakenKeys(t) == keys \ {t}

Refresh(d) ==
    /\ session[d].pc = "in"
    /\ LET t == session[d].token IN
       /\ keys' = TakenKeys(t)
       /\ IF t \in keys
          THEN /\ session' = [session EXCEPT ![d].pc = "issue"]
               /\ exchanged' = exchanged \cup {t}
          ELSE session' = [session EXCEPT ![d] = SignedOut] /\ UNCHANGED exchanged
    /\ out' = IF sweep.pc = "off" THEN out ELSE out \ {d}
    /\ lapsed' = lapsed \ {d}
    /\ UNCHANGED <<second, account, sweep, twins>>

\* _issue_tokens: neither the row of the user nor a sign-out is looked at again.
Twin == second \in keys \cup exchanged \cup {session[d].token : d \in Devices}

Issue(d) ==
    /\ session[d].pc = "issue"
    /\ keys' = keys \cup {second}
    /\ session' = [session EXCEPT ![d] = [pc |-> "in", token |-> second]]
    /\ twins' = (twins \/ Twin)
    /\ UNCHANGED <<second, account, sweep, exchanged, out, lapsed>>

\* The call to Redis fails, or its answer is lost on the way to the device: the session is over,
\* for the key it had is taken.
IssueFails(d) ==
    /\ session[d].pc = "issue"
    /\ \/ UNCHANGED <<keys, twins>>
       \/ keys' = keys \cup {second} /\ twins' = (twins \/ Twin)
    /\ session' = [session EXCEPT ![d] = SignedOut]
    /\ UNCHANGED <<second, account, sweep, exchanged, out, lapsed>>

\* A token that has been exchanged is presented again: it is refused unless Redis has it.
Replay(t) ==
    /\ t \in exchanged
    /\ keys' = TakenKeys(t)
    /\ UNCHANGED <<second, session, account, sweep, exchanged, twins, out, lapsed>>

\* LogoutUseCase.
Logout(d) ==
    /\ session[d].pc = "in"
    /\ keys' = keys \ {session[d].token}
    /\ session' = [session EXCEPT ![d] = SignedOut]
    /\ lapsed' = lapsed \ {d}
    /\ UNCHANGED <<second, account, sweep, exchanged, twins, out>>

\* The time to live of a key is over.
Expire(t) ==
    /\ t \in keys
    /\ keys' = keys \ {t} /\ lapsed' = lapsed \cup HeldBy({t})
    /\ UNCHANGED <<second, session, account, sweep, exchanged, twins, out>>

\* LogoutEverywhereUseCase: delete_by_value_prefix scans the keys, which finds those that are
\* there from its beginning to its end and perhaps others, and then deletes what it has found.
SweepStart ==
    /\ account = "active" /\ sweep.pc = "off"
    /\ sweep' = [pc |-> "scan", found |-> keys]
    /\ out' = {d \in Devices : session[d].pc = "in"}
    /\ UNCHANGED <<second, keys, session, account, exchanged, twins, lapsed>>

\* Mutant: only one batch of the scan is taken.
SweepScanned_OneBatch ==
    /\ sweep.pc = "scan"
    /\ \E batch \in SUBSET keys : sweep' = [pc |-> "delete", found |-> batch]
    /\ UNCHANGED <<second, keys, session, account, exchanged, twins, out, lapsed>>

SweepScanned ==
    /\ sweep.pc = "scan"
    /\ \E more \in SUBSET (keys \ sweep.found) :
          sweep' = [pc |-> "delete", found |-> (sweep.found \cap keys) \cup more]
    /\ UNCHANGED <<second, keys, session, account, exchanged, twins, out, lapsed>>

SweepDelete ==
    /\ sweep.pc = "delete"
    /\ keys' = keys \ sweep.found /\ lapsed' = lapsed \cup HeldBy(sweep.found)
    /\ sweep' = NoSweep
    /\ UNCHANGED <<second, session, account, exchanged, twins, out>>

\* DeleteAccountUseCase leaves the tokens alone; every access token meets a user that is gone.
DeleteAccount ==
    /\ account = "active"
    /\ account' = "deleted"
    /\ UNCHANGED <<second, keys, session, sweep, exchanged, twins, out, lapsed>>

Tick ==
    /\ second < MaxSecond
    /\ second' = second + 1
    /\ UNCHANGED <<keys, session, account, sweep, exchanged, twins, out, lapsed>>

SessionsNext ==
    \/ \E d \in Devices : Enter(d) \/ Refresh(d) \/ Issue(d) \/ IssueFails(d) \/ Logout(d)
    \/ \E t \in Token : Replay(t) \/ Expire(t)
    \/ SweepStart \/ SweepScanned \/ SweepDelete \/ DeleteAccount \/ Tick

SessionsSpec == SessionsInit /\ [][SessionsNext]_sessionVars

-----------------------------------------------------------------------------

\* A session is one chain of tokens: a device that is signed in has the last of them, which
\* Redis accepts until it lapses or a sign-out takes it, and no token that was exchanged is accepted again.  Two tokens of one second
\* are one, and the exchange of one session then takes the token of the other.
SessionIsOneChain ==
    ~twins => /\ exchanged \cap keys = {}
              /\ \A d \in Devices : session[d].pc = "in" => session[d].token \in keys \/ d \in lapsed

\* When a sign-out everywhere is over, no session that had begun before it can go on, except
\* one whose token was exchanged while the sign-out was under way.
SignedOutIsOut ==
    (~twins /\ sweep.pc = "off") => \A d \in out : session[d].token \notin keys

\* A session lasts until it is ended, and no longer.
SessionsHold == SessionIsOneChain /\ SignedOutIsOut

=============================================================================
