----------------------------- MODULE RelayProxy -----------------------------
(***************************************************************************)
(* The local relay proxy: which supplier a request goes to, which ones it  *)
(* falls back to, and the rotation all requests share (relay_rotation.go   *)
(* and forwardRelayProxy in helper.go).  The rotation lives in one global  *)
(* selector behind a lock; a request takes its turn under the lock, talks  *)
(* to suppliers without it, and records every outcome under it again.      *)
(*                                                                         *)
(* A request works with the settings it began with.  They come from a copy *)
(* in memory that is read again from the file at most every five seconds   *)
(* (`fresh' says that the copy is younger), so requests with old and with  *)
(* new settings reach the selector in any order.                           *)
(***************************************************************************)
EXTENDS Naturals, Sequences, FiniteSets, SequencesExt, FiniteSetsExt

CONSTANTS
    Requests, Relays, Conversations, NoConversation, Absent,
    ProxySettings,   \* the settings the file may hold
    Unreadable,      \* a settings file that cannot be read
    MaxBegun, MaxSaves   \* bounds

Strategies == {"failover", "conversationRoundRobin", "requestRoundRobin", "weightedRoundRobin"}
Member == [relay : Relays, weight : Nat \ {0}]
Answers == {"rejected", "refused", "failed", "passed", "ok"}

ASSUME ProxyAssumption ==
    /\ Absent \notin Requests \cup Relays \cup Answers /\ NoConversation \notin Conversations
    /\ Unreadable \notin ProxySettings
    /\ \A s \in ProxySettings :
          /\ s.active \in Relays /\ s.usable \subseteq Relays
          /\ s.route \in Relays \cup {Absent}
          /\ s.aggregate # Absent =>
                /\ s.aggregate.strategy \in Strategies
                /\ s.aggregate.members \in Seq(Member)
    /\ MaxBegun \in Nat /\ MaxSaves \in Nat

VARIABLES
    onDisk,      \* the settings file
    cached,      \* settings of launcherRuntime
    fresh,       \* settingsRefreshedAt is less than five seconds ago
    refreshing,  \* the request that holds settingsRefreshMu and has read the file
    selector,    \* globalRelayRotation.selector
    work,        \* the requests
    alone,       \* requests since whose turn nobody else moved the selector
    begun, saves

proxyVars == <<onDisk, cached, fresh, refreshing, selector, work, alone, begun, saves>>

Idle == [stage |-> "idle", settings |-> Absent, conversation |-> NoConversation,
         candidates |-> <<>>, tried |-> <<>>, answer |-> Absent]

ProxyInit ==
    /\ onDisk \in ProxySettings /\ cached = onDisk /\ fresh = FALSE /\ refreshing = Absent
    /\ selector = Absent /\ work = [r \in Requests |-> Idle] /\ alone = {}
    /\ begun = 0 /\ saves = 0

------------------------------------------------------------------------------
\* The selector.  `turns' and `kept' only record what it gave out.
NewSelector(aggregate) ==
    [aggregate |-> aggregate, failoverIndex |-> 0, requestIndex |-> 0, weightedIndex |-> 0,
     assignments |-> [c \in Conversations |-> Absent],
     turns |-> [m \in Relays |-> 0], kept |-> [c \in Conversations |-> {}]]

\* validateAggregateMembers
ValidMembers(settings) ==
    /\ settings.aggregate.members # <<>>
    /\ \A k \in DOMAIN settings.aggregate.members :
          settings.aggregate.members[k].relay \in settings.usable

\* The selector a request with these settings works on, made anew for another
\* aggregate; two aggregates are the same when their signatures are.
SelectorFor(settings) ==
    IF selector = Absent THEN NewSelector(settings.aggregate)
    ELSE IF selector.aggregate # settings.aggregate THEN NewSelector(settings.aggregate)
    ELSE selector

MemberAt(s, index) == s.aggregate.members[(index % Len(s.aggregate.members)) + 1].relay

Schedule(s) ==
    FlattenSeq([k \in DOMAIN s.aggregate.members |->
                  [i \in 1 .. s.aggregate.members[k].weight |-> s.aggregate.members[k].relay]])

\* Mutant of WeightedTurn: the schedule ends after as many turns as members.
WeightedTurnShort(s) ==
    LET relay == Schedule(s)[s.weightedIndex + 1]
    IN [relay |-> relay,
        selector |-> [s EXCEPT !.weightedIndex = (@ + 1) % Len(s.aggregate.members),
                               !.turns[relay] = @ + 1]]

\* selectNextWeighted
WeightedTurn(s) ==
    LET relay == Schedule(s)[(s.weightedIndex % Len(Schedule(s))) + 1]
    IN [relay |-> relay,
        selector |-> [s EXCEPT !.weightedIndex = (@ + 1) % Len(Schedule(s)),
                               !.turns[relay] = @ + 1]]

\* selectNextRequest
NextTurn(s) ==
    LET relay == MemberAt(s, s.requestIndex)
    IN [relay |-> relay,
        selector |-> [s EXCEPT !.requestIndex = (@ + 1) % Len(s.aggregate.members),
                               !.turns[relay] = @ + 1]]

\* selectForConversation
ConversationTurn(s, conversation) ==
    IF conversation = NoConversation THEN NextTurn(s)
    ELSE LET assigned == s.assignments[conversation]
             turn == IF assigned # Absent THEN [relay |-> assigned, selector |-> s] ELSE NextTurn(s)
         IN [turn EXCEPT !.selector.assignments[conversation] = turn.relay,
                         !.selector.kept[conversation] = @ \cup {turn.relay}]

\* selectRelay
Turn(s, conversation) ==
    CASE s.aggregate.strategy = "conversationRoundRobin" -> ConversationTurn(s, conversation)
      [] s.aggregate.strategy = "requestRoundRobin" -> NextTurn(s)
      [] s.aggregate.strategy = "weightedRoundRobin" -> WeightedTurn(s)
      [] OTHER -> [relay |-> MemberAt(s, s.failoverIndex), selector |-> s]

\* The first member of this name: the page lets a supplier be taken twice.
IsFirst(members, relay, k) ==
    members[k].relay = relay /\ \A j \in 1 .. k - 1 : members[j].relay # relay

\* fallbackRelaysAfter: the other members, from the one after the chosen on.
Fallbacks(settings, relay) ==
    LET members == settings.aggregate.members
        n == Len(members)
        chosen == CHOOSE k \in DOMAIN members : IsFirst(members, relay, k)
    IN [offset \in 1 .. n - 1 |-> members[((chosen + offset - 1) % n) + 1].relay]

\* recordRelayRequestEvent: a request whose settings have no aggregate removes
\* the selector of the others; a failure moves whatever failover is selected.
AfterEvent(settings, failed) ==
    IF settings.aggregate = Absent \/ selector = Absent THEN Absent
    ELSE IF failed /\ selector.aggregate.strategy = "failover"
    THEN [selector EXCEPT !.failoverIndex = (@ + 1) % Len(selector.aggregate.members)]
    ELSE selector

\* Mutant of Recorded: the failure that will be followed by a fallback is not counted.
RecordedLast(r, failed, settings) ==
    selector' = AfterEvent(settings, failed /\ Len(work[r].tried) + 1 = Len(work[r].candidates))

Recorded(r, failed, settings) == selector' = AfterEvent(settings, failed)

Moved(r) == alone' = IF selector' = selector THEN alone ELSE alone \cap {r}

------------------------------------------------------------------------------
\* The settings.

\* Any process saves the settings, or somebody damages the file.
SaveSettings(s) ==
    /\ saves < MaxSaves /\ saves' = saves + 1 /\ onDisk' = s
    /\ UNCHANGED <<cached, fresh, refreshing, selector, work, alone, begun>>

\* The page saves them through the bridge, which also replaces the copy.
BridgeSaves(s) ==
    /\ saves < MaxSaves /\ saves' = saves + 1 /\ onDisk' = s /\ cached' = s
    /\ UNCHANGED <<fresh, refreshing, selector, work, alone, begun>>

Expire ==
    /\ fresh /\ fresh' = FALSE
    /\ UNCHANGED <<onDisk, cached, refreshing, selector, work, alone, begun, saves>>

\* selectRelayForProbe, for the model catalogue or a switch: it reads the
\* file, and may replace or remove the selector, but takes no turn.
Probe ==
    /\ onDisk \in ProxySettings
    /\ selector' = IF onDisk.aggregate = Absent THEN Absent
                   ELSE IF ValidMembers(onDisk) THEN SelectorFor(onDisk) ELSE selector
    /\ alone' = IF selector' = selector THEN alone ELSE {}
    /\ UNCHANGED <<onDisk, cached, fresh, refreshing, work, begun, saves>>

------------------------------------------------------------------------------
\* A request.

\* handleRelayProxyHTTP and relaySettingsForRequest up to the read of the file.
Begin(r) ==
    /\ work[r].stage = "idle" /\ begun < MaxBegun /\ refreshing = Absent
    /\ begun' = begun + 1
    /\ IF fresh
       THEN /\ work' = [work EXCEPT ![r] = [Idle EXCEPT !.stage = "begun", !.settings = cached]]
            /\ UNCHANGED refreshing
       ELSE /\ work' = [work EXCEPT ![r] =
                          [Idle EXCEPT !.stage = "refreshing",
                                       !.settings = IF onDisk = Unreadable THEN cached ELSE onDisk]]
            /\ refreshing' = r
    /\ UNCHANGED <<onDisk, cached, fresh, selector, alone, saves>>

\* The copy becomes what was read, even if the bridge saved meanwhile.
Refresh(r) ==
    /\ refreshing = r /\ refreshing' = Absent
    /\ cached' = work[r].settings /\ fresh' = TRUE
    /\ work' = [work EXCEPT ![r].stage = "begun"]
    /\ UNCHANGED <<onDisk, selector, alone, begun, saves>>

\* Too large, undecodable, or meant for the official service: told so at once.
TurnAway(r) ==
    /\ work[r].stage = "idle" /\ begun < MaxBegun /\ begun' = begun + 1
    /\ work' = [work EXCEPT ![r] = [Idle EXCEPT !.stage = "answered", !.answer = "rejected"]]
    /\ UNCHANGED <<onDisk, cached, fresh, refreshing, selector, alone, saves>>

Answer(r, answer, tried) ==
    work' = [work EXCEPT ![r].stage = "answered", ![r].answer = answer, ![r].tried = tried]

\* selectRelayModelRoute: without an aggregate a model may have a supplier of
\* its own, which is the only candidate; the selector is left alone.
Route(r) ==
    LET settings == work[r].settings
    IN /\ work[r].stage = "begun"
       /\ settings.aggregate = Absent /\ settings.route # Absent
       /\ IF settings.route \in settings.usable \ {settings.active}
          THEN work' = [work EXCEPT ![r].stage = "trying", ![r].candidates = <<settings.route>>]
          ELSE Answer(r, "rejected", <<>>)
       /\ UNCHANGED <<onDisk, cached, fresh, refreshing, selector, alone, begun, saves>>

\* selectRelayForRequest without an aggregate.
SelectActive(r) ==
    /\ work[r].stage = "begun" /\ work[r].settings.aggregate = Absent
    /\ selector' = Absent /\ Moved(r)
    /\ work' = [work EXCEPT ![r].stage = "trying", ![r].candidates = <<work[r].settings.active>>]
    /\ UNCHANGED <<onDisk, cached, fresh, refreshing, begun, saves>>

\* selectRelayForRequest with one, and the candidates after the chosen.
SelectMember(r, conversation) ==
    LET settings == work[r].settings
        turn == Turn(SelectorFor(settings), conversation)
    IN /\ work[r].stage = "begun" /\ settings.aggregate # Absent
       /\ IF ValidMembers(settings)
          THEN /\ selector' = turn.selector
               /\ alone' = (IF selector' = selector THEN alone ELSE {}) \cup {r}
               /\ work' = [work EXCEPT ![r].stage = "trying",
                             ![r].conversation = conversation,
                             ![r].candidates = <<turn.relay>> \o Fallbacks(settings, turn.relay)]
          ELSE Answer(r, "rejected", <<>>) /\ UNCHANGED <<selector, alone>>
       /\ UNCHANGED <<onDisk, cached, fresh, refreshing, begun, saves>>

\* The supplier under way, and whether another one is left.
Candidate(r) == work[r].candidates[Len(work[r].tried) + 1]
Tried(r) == Append(work[r].tried, Candidate(r))
IsLast(r) == Len(work[r].tried) + 1 = Len(work[r].candidates)

Attempt(r, failed) ==
    /\ work[r].stage = "trying"
    /\ Recorded(r, failed, work[r].settings) /\ Moved(r)
    /\ UNCHANGED <<onDisk, cached, fresh, refreshing, begun, saves>>

\* The request cannot be put to this supplier: the client is told, others are
\* not asked, and the rotation counts a failure of the supplier.
Refuse(r) == Attempt(r, TRUE) /\ Answer(r, "refused", Tried(r))

\* No HTTP client, no connection, or a status from 400 on, and one is left.
FallBack(r) ==
    /\ Attempt(r, TRUE) /\ ~IsLast(r)
    /\ work' = [work EXCEPT ![r].tried = Tried(r)]

GiveUp(r) == Attempt(r, TRUE) /\ IsLast(r) /\ Answer(r, "failed", Tried(r))

\* A redirect is passed to the client, and counted as a failure.
PassOn(r) == Attempt(r, TRUE) /\ Answer(r, "passed", Tried(r))

Succeed(r) == Attempt(r, FALSE) /\ Answer(r, "ok", Tried(r))

\* The client goes away: a request under way ends with an error, and is tried
\* with the other members all the same (FallBack, GiveUp).
Leave(r) ==
    /\ work[r].stage = "answered"
    /\ work' = [work EXCEPT ![r] = Idle] /\ alone' = alone \ {r}
    /\ UNCHANGED <<onDisk, cached, fresh, refreshing, selector, begun, saves>>

Stopped == begun = MaxBegun /\ \A r \in Requests : work[r].stage = "idle"
ProxyDone == Stopped /\ UNCHANGED proxyVars

ProxyNext ==
    \/ \E s \in ProxySettings \cup {Unreadable} : SaveSettings(s)
    \/ \E s \in ProxySettings : BridgeSaves(s)
    \/ Expire \/ Probe \/ ProxyDone
    \/ \E r \in Requests :
          \/ Begin(r) \/ Refresh(r) \/ TurnAway(r) \/ Route(r) \/ SelectActive(r)
          \/ \E c \in Conversations \cup {NoConversation} : SelectMember(r, c)
          \/ Refuse(r) \/ FallBack(r) \/ GiveUp(r) \/ PassOn(r) \/ Succeed(r) \/ Leave(r)

ProxySpec == ProxyInit /\ [][ProxyNext]_proxyVars

------------------------------------------------------------------------------
MemberSet(aggregate) == {aggregate.members[k].relay : k \in DOMAIN aggregate.members}

\* No supplier is taken twice.
Distinct(aggregate) ==
    LET members == aggregate.members
    IN \A j, k \in DOMAIN members : members[j].relay = members[k].relay => j = k

\* The turns a member has in a round.
Share(aggregate, k) ==
    IF aggregate.strategy = "weightedRoundRobin" THEN aggregate.members[k].weight ELSE 1

\* As long as the selector lives, its members take turns by their weights: none
\* has begun a round before every other has had its share of the rounds before;
\* and a conversation stays with its member (selectNextRequest,
\* selectNextWeighted, selectForConversation).
SharesAreFair ==
    selector # Absent =>
        LET aggregate == selector.aggregate
            Taken(k) == selector.turns[aggregate.members[k].relay]
        IN /\ Distinct(aggregate) =>
                 \A j, k \in DOMAIN aggregate.members : \A rounds \in 0 .. Taken(j) :
                    Taken(j) > rounds * Share(aggregate, j) => Taken(k) >= rounds * Share(aggregate, k)
           /\ \A c \in Conversations : Cardinality(selector.kept[c]) <= 1

\* What a request does when it ends: told that all suppliers failed, it has
\* asked every member of its aggregate, and none twice, whatever other requests
\* did to the rotation meanwhile; answered after failures, it leaves the failover
\* at the member that answered, so that the next request starts there, provided
\* that no other request moved the rotation since its turn and no supplier is
\* taken twice (forwardRelayProxy, fallbackRelaysAfter, recordEvent).
FailoverIsThorough ==
    [][\A r \in Requests :
          LET settings == work[r].settings  tried == work'[r].tried
              IsOnce == settings.aggregate # Absent => Distinct(settings.aggregate)
          IN work[r].stage = "trying" =>
             /\ IsOnce => IsInjective(tried)
             /\ (work'[r].answer = "failed" /\ settings.aggregate # Absent) =>
                   /\ ToSet(tried) = MemberSet(settings.aggregate)
                   /\ Len(tried) = Len(settings.aggregate.members)
             /\ (/\ work'[r].answer = "ok" /\ r \in alone /\ selector # Absent
                 /\ selector.aggregate = settings.aggregate
                 /\ selector.aggregate.strategy = "failover" /\ IsOnce) =>
                   MemberAt(selector', selector'.failoverIndex) = Last(tried)]_proxyVars
=============================================================================
