--------------------------- MODULE OfficialRealtime ---------------------------
(***************************************************************************)
(* Official voice (official_realtime.go): which login a call uses, and how *)
(* a denial of the official service is kept in memory and on disk, so that *)
(* the credentials it was about are not tried again.  Calls, looks at the  *)
(* status and the manager, which has no memory of denials, run at once.    *)
(***************************************************************************)
EXTENDS Naturals, Sequences, SequencesExt

CONSTANTS
    Callers,
    NoOne,           \* no account, or no token
    BindingChoices,  \* pairs: OfficialAuthContents, AuthContents of the profile
    LoginChoices,    \* contents of auth.json
    Offers,          \* requests: content type, and its fields in order
    NoDenial,
    MaxChanges, MaxDenials, MaxMishaps  \* bounds

VARIABLES
    binding,         \* of the active profile, in settings.json
    authJson,
    expired,         \* tokens that have less than 30 seconds left
    realtimeDenied,  \* in the memory of the launcher
    denialFile,      \* official-realtime-denial.json
    caller,
    denied,          \* what the service has denied
    standing,        \* logins whose denial is on disk and nobody used another since
    changes, mishaps

realtimeVars == <<binding, authJson, expired, realtimeDenied, denialFile, caller,
                  denied, standing, changes, mishaps>>

EmptyLogin == [account |-> NoOne, token |-> "empty"]
\* Contents that are no JSON, of another kind of login, or without account.
Unsound == [account |-> NoOne, token |-> NoOne]
Logins == LoginChoices \cup {b[k] : b \in BindingChoices, k \in 1 .. 2} \cup {Unsound}
Reasons == {"", "expired", "usage_limited", "not_entitled"}

\* NoDenial: there is no file, or no denial in memory.
ASSUME RealtimeAssumption ==
    /\ MaxChanges \in Nat /\ MaxDenials \in Nat /\ MaxMishaps \in Nat
    /\ \A b \in BindingChoices : Len(b) = 2
    /\ NoDenial \notin [login : Logins, reason : Reasons]

NoCall == [phase |-> "idle", settings |-> <<EmptyLogin, EmptyLogin>>, login |-> Unsound, reason |-> "",
         knew |-> {}]

------------------------------------------------------------------------------
\* parseOfficialRealtimeCredentials
Usable(login) == login.account # NoOne /\ login.token # NoOne /\ login.token \notin expired

\* officialRealtimeCapabilityForSettings: the first usable binding, or the
\* first that names an account; a newer token of that account may be in
\* auth.json.
Bindings(settings) == {k \in 1 .. 2 : settings[k] # EmptyLogin}
BoundLogin(settings) ==
    LET usable == {k \in Bindings(settings) : Usable(settings[k])}
        named == {k \in Bindings(settings) : settings[k].account # NoOne}
        First(ks) == settings[IF 1 \in ks THEN 1 ELSE 2]
    IN  IF usable # {} THEN First(usable) ELSE IF named # {} THEN First(named) ELSE Unsound
Available(login) == [login |-> login, reason |-> "available"]
Unavailable(reason) == [login |-> Unsound, reason |-> reason]
Capability(settings, current) ==
    LET bound == BoundLogin(settings)
    IN  IF Bindings(settings) = {} THEN Unavailable("not_bound")
        ELSE IF bound.account = NoOne THEN Unavailable("expired")
        ELSE IF current.account = bound.account /\ Usable(current) THEN Available(current)
        ELSE IF Usable(bound) THEN Available(bound)
        ELSE Unavailable(IF current.account \in {NoOne, bound.account} THEN "expired"
                         ELSE "account_mismatch")

\* officialRealtimeCallPayload: of fields of one name the last one counts; a
\* blank session of a form and a null one in JSON stand for an empty object.
CallPayload(offer) ==
    LET ignored == CASE offer.type = "multipart" -> {"blank"} [] offer.type = "json" -> {"null"}
                     [] OTHER -> {"object", "null", "blank"}
        LastField(name, without, default) ==
            LET k == SelectLastInSeq(offer.fields, LAMBDA f : f[1] = name /\ f[2] \notin without)
            IN  IF k = 0 THEN default ELSE offer.fields[k][2]
    IN  /\ offer.type \in {"multipart", "json", "sdp"}
        /\ LastField("sdp", {}, "blank") # "blank"
        /\ LastField("session", ignored, "object") = "object"

\* markOfficialRealtimeDenied: an answer of the service, by status and whether
\* its body speaks of a limit; "" is no denial.
DenialReason(status, limit) ==
    CASE status = 401 -> "expired"
      [] status # 401 /\ (status = 429 \/ limit) -> "usage_limited"
      [] status = 403 /\ ~limit -> "not_entitled"
      [] OTHER -> ""

------------------------------------------------------------------------------
RealtimeInit ==
    /\ binding \in BindingChoices /\ authJson \in LoginChoices /\ expired = {}
    /\ realtimeDenied = NoDenial /\ denialFile = NoDenial
    /\ caller = [c \in Callers |-> NoCall]
    /\ denied = {} /\ standing = {} /\ changes = 0 /\ mishaps = 0

Now(c, phase) == caller[c].phase = phase
Become(c, record) == caller' = [caller EXCEPT ![c] = record]
DenyCall(c, reason) == Become(c, [caller[c] EXCEPT !.phase = "refused", !.reason = reason])
Pass(c, phase) == Become(c, [caller[c] EXCEPT !.phase = phase])
World == <<binding, authJson, expired, changes>>
Denials == <<realtimeDenied, denialFile, denied, standing, mishaps>>

\* relaySettingsForRequest
AskSettings(c) ==
    /\ Now(c, "idle")
    /\ Become(c, [NoCall EXCEPT !.phase = "asked", !.settings = binding, !.knew = standing])
    /\ UNCHANGED <<World, Denials>>
FindLogin(c) ==
    /\ Now(c, "asked")
    /\ LET found == Capability(caller[c].settings, authJson)
       IN  IF found.reason = "available"
           THEN Become(c, [caller[c] EXCEPT !.phase = "found", !.login = found.login])
           ELSE Become(c, NoCall)
    /\ UNCHANGED <<World, Denials>>

\* Who uses another login lifts the standing denials.
Others(login) == {l \in standing : l # login}
Lift(c, login) ==
    /\ standing' = standing \ Others(login)
    /\ caller' = [d \in Callers |->
          [(IF d = c THEN [caller[c] EXCEPT !.phase = "passed"] ELSE caller[d])
              EXCEPT !.knew = @ \ Others(login)]]

\* Mutant of LoadDenial: a limit of use is not known as a reason.
LoadDenialOld(file) ==
    IF file # NoDenial /\ file.reason \in {"expired", "not_entitled"} THEN file ELSE NoDenial
\* loadOfficialRealtimeDenialUnlocked
LoadDenial(file) ==
    IF file # NoDenial /\ file.reason \in {"expired", "not_entitled", "usage_limited"} THEN file
    ELSE NoDenial
\* applyStoredOfficialRealtimeDenial
AskFile(c) ==
    /\ Now(c, "found")
    /\ LET denial == LoadDenial(denialFile)
       IN  IF denial # NoDenial /\ denial.login = caller[c].login
           THEN DenyCall(c, denial.reason) /\ UNCHANGED <<denialFile, standing>>
           ELSE /\ denialFile' = IF denial = NoDenial THEN denialFile ELSE NoDenial
                /\ Lift(c, caller[c].login)
    /\ UNCHANGED <<World, realtimeDenied, denied, mishaps>>
\* launcherRuntime.officialRealtimeCapability
AskMemory(c) ==
    /\ Now(c, "passed")
    /\ IF realtimeDenied # NoDenial /\ realtimeDenied.login = caller[c].login
       THEN DenyCall(c, realtimeDenied.reason) /\ UNCHANGED realtimeDenied
       ELSE realtimeDenied' = NoDenial /\ Pass(c, "ready")
    /\ UNCHANGED <<World, denialFile, denied, standing, mishaps>>

\* forwardOfficialRealtimeHTTP, forwardOfficialRealtimeWebSocket: the payload
\* is looked at after the login.
Send(c, offer) ==
    /\ Now(c, "ready")
    /\ IF CallPayload(offer) THEN Pass(c, "sent") ELSE Become(c, NoCall)
    /\ UNCHANGED <<World, Denials>>
\* Status 0: no answer.
Answered(c, status, limit) ==
    /\ Now(c, "sent")
    /\ LET reason == DenialReason(status, limit)
       IN  IF reason = "" THEN Become(c, NoCall) /\ UNCHANGED denied
           ELSE /\ Cardinality(denied) < MaxDenials
                /\ denied' = denied \cup {[login |-> caller[c].login, reason |-> reason]}
                /\ Become(c, [caller[c] EXCEPT !.phase = "denied", !.reason = reason])
    /\ UNCHANGED <<World, realtimeDenied, denialFile, standing, mishaps>>
Denial(c) == [login |-> caller[c].login, reason |-> caller[c].reason]
Remember(c) ==
    /\ Now(c, "denied") /\ realtimeDenied' = Denial(c) /\ Pass(c, "storing")
    /\ UNCHANGED <<World, denialFile, denied, standing, mishaps>>
\* storeOfficialRealtimeDenial
Store(c) ==
    /\ Now(c, "storing") /\ denialFile' = Denial(c)
    /\ standing' = {caller[c].login}
    /\ caller' = [d \in Callers |->
          IF d = c THEN NoCall ELSE [caller[d] EXCEPT !.knew = @ \cap {caller[c].login}]]
    /\ UNCHANGED <<World, realtimeDenied, denied, mishaps>>
StoreFails(c) ==
    /\ Now(c, "storing") /\ mishaps < MaxMishaps /\ mishaps' = mishaps + 1 /\ Become(c, NoCall)
    /\ UNCHANGED <<World, realtimeDenied, denialFile, denied, standing>>
\* officialRealtimeStatusValue and the payload of the manager, or a refusal.
EndCall(c) ==
    /\ caller[c].phase \in {"refused", "passed", "ready"} /\ Become(c, NoCall)
    /\ UNCHANGED <<World, Denials>>

\* The user binds or signs in, a token runs out, the launcher starts again.
UserChanges == changes < MaxChanges /\ changes' = changes + 1 /\ UNCHANGED <<caller, Denials>>
Bind(b) == UserChanges /\ binding' = b /\ UNCHANGED <<authJson, expired>>
SignIn(login) == UserChanges /\ authJson' = login /\ UNCHANGED <<binding, expired>>
TokenExpires(token) == UserChanges /\ expired' = expired \cup {token} /\ UNCHANGED <<binding, authJson>>
Restart ==
    /\ mishaps < MaxMishaps /\ mishaps' = mishaps + 1
    /\ realtimeDenied' = NoDenial /\ caller' = [c \in Callers |-> NoCall]
    /\ UNCHANGED <<World, denialFile, denied, standing>>

RealtimeNext ==
    \/ \E c \in Callers :
          \/ AskSettings(c) \/ FindLogin(c) \/ AskFile(c) \/ AskMemory(c)
          \/ Remember(c) \/ Store(c) \/ StoreFails(c) \/ EndCall(c)
          \/ \E offer \in Offers : Send(c, offer)
          \/ \E status \in {0, 200, 401, 403, 429}, limit \in BOOLEAN : Answered(c, status, limit)
    \/ \E b \in BindingChoices : Bind(b)
    \/ \E login \in LoginChoices : SignIn(login) \/ TokenExpires(login.token)
    \/ Restart

RealtimeSpec == RealtimeInit /\ [][RealtimeNext]_realtimeVars
------------------------------------------------------------------------------
\* A denial hits the login it was about and no other: whoever is refused has
\* exactly the account and token that the service denied for this reason; and
\* a login whose denial was on disk when a call began is not sent again,
\* whatever restarts, as long as nobody used another login meanwhile.  What is
\* sent belongs to an account that the profile was bound to.
DenialsHitTheDenied ==
    \A c \in Callers :
        /\ Now(c, "refused") => [login |-> caller[c].login, reason |-> caller[c].reason] \in denied
        /\ Now(c, "sent") =>
              /\ caller[c].login \notin caller[c].knew
              /\ \E k \in {1, 2} : caller[c].settings[k].account = caller[c].login.account

\* What a proof of it needs.  The variables keep their types.
CallPhases == {"idle", "asked", "found", "passed", "ready", "sent", "refused", "denied", "storing"}
CallType ==
    [phase : CallPhases, settings : BindingChoices \cup {<<EmptyLogin, EmptyLogin>>}, login : Logins,
     reason : Reasons, knew : SUBSET Logins]
RealtimeTypeOK ==
    /\ binding \in BindingChoices /\ authJson \in LoginChoices
    /\ denied \subseteq [login : Logins, reason : Reasons \ {""}]
    /\ realtimeDenied \in denied \cup {NoDenial} /\ denialFile \in denied \cup {NoDenial}
    /\ standing \subseteq Logins
    /\ caller \in [Callers -> CallType]

\* A standing denial is the one on disk; a call knows none that does not stand;
\* and who went past the file, or further, is not the one who is denied there.
StandingIsOnDisk ==
    /\ \A login \in standing : denialFile # NoDenial /\ denialFile.login = login
    /\ \A c \in Callers :
          /\ caller[c].knew \subseteq standing
          /\ caller[c].phase \in {"passed", "ready", "sent"} => caller[c].login \notin caller[c].knew

\* The login of a call is of an account it is bound to; a refusal, and what is
\* stored, is what the service has said.
CallsAreBound ==
    \A c \in Callers :
        /\ caller[c].phase # "idle" => caller[c].settings \in BindingChoices
        /\ caller[c].phase \in {"found", "passed", "ready", "sent"} =>
              \E k \in 1 .. 2 : caller[c].settings[k].account = caller[c].login.account
        /\ caller[c].phase \in {"refused", "denied", "storing"} => Denial(c) \in denied
RealtimeIInv == RealtimeTypeOK /\ StandingIsOnDisk /\ CallsAreBound
=============================================================================
