------------------------------- MODULE KeyCache -------------------------------
(***************************************************************************)
(* The signing keys of the identity server as an API process keeps them    *)
(* (core/security.py): one cached copy, shared by the requests, which they *)
(* fetch at different moments and find by the key identifier of a token.   *)
(* Parameters: the requests, the keys the realm has had, TTL and Day in    *)
(* ticks.  Bounds: MaxTime, MaxRefusals of the identity server.            *)
(***************************************************************************)
EXTENDS Integers, FiniteSets

CONSTANTS Requests, Keys, TTL, Day, MaxTime, MaxRefusals

Never == -1
NoCopy == {}

KeysAssumption ==
    /\ Never \notin Keys
    /\ TTL \in Nat \ {0} /\ Day \in Nat \ {0} /\ MaxTime \in Nat /\ MaxRefusals \in Nat

VARIABLES
    now,
    published,  \* the keys the realm signs with; the last one published is among them
    retired,    \* key -> when it was taken out of the realm, Never
    copy,       \* _jwks_cache: the keys of the copy, NoCopy
    copied,     \* _jwks_cache_time, Never after a reset
    token,      \* request -> its token: [step, key, good, looks, got, since, age, whole]
    refusals

keyVars == <<now, published, retired, copy, copied, token, refusals>>

\* got: the keys in an answer; since: when the look began; age: of the copy that served, days
\* included; whole: history, the key has been in the realm since the token came.
Waiting == [step |-> "idle", key |-> Never, good |-> TRUE, looks |-> 0, got |-> {}, since |-> 0,
            age |-> 0, whole |-> FALSE]

KeysInit ==
    /\ now = 0 /\ refusals = 0
    /\ \E k \in Keys : published = {k}
    /\ retired = [k \in Keys |-> Never]
    /\ copy = NoCopy /\ copied = Never
    /\ token = [r \in Requests |-> Waiting]

-----------------------------------------------------------------------------
(* The identity server and the clock. *)

\* A new key beside the others, or one that is taken out once there is another.
Rotate ==
    /\ \/ \E k \in Keys \ published : retired[k] = Never /\ published' = published \cup {k} /\ UNCHANGED retired
       \/ \E k \in published : published # {k} /\ published' = published \ {k}
                               /\ retired' = [retired EXCEPT ![k] = now]
    /\ token' = [r \in Requests |-> IF token[r].step \in {"fetch", "answered"}
                                   THEN [token[r] EXCEPT !.whole = @ /\ token[r].key \in published'] ELSE token[r]]
    /\ UNCHANGED <<now, copy, copied, refusals>>

Tick ==
    /\ now < MaxTime /\ now' = now + 1
    /\ UNCHANGED <<published, retired, copy, copied, token, refusals>>

-----------------------------------------------------------------------------
(* decode_jwt_token *)

InRealm(k) == k \in published

\* The age is taken without its days: timedelta.seconds.
Usable == copy # NoCopy /\ copied # Never /\ (now - copied) % Day < TTL

\* How a request ends; of one that is refused only what it could expect is remembered.
Verdict(t, keys) ==
    IF t.key \in keys /\ t.good
    THEN [t EXCEPT !.step = "accepted", !.got = {}, !.looks = 0, !.whole = FALSE]
    ELSE [Waiting EXCEPT !.step = "refused", !.key = t.key, !.good = t.good, !.whole = t.whole /\ t.good]

\* A token of a key of the realm, past or present, or of none; its claims hold or not.  A usable
\* copy that has the key serves without a call; one that has not loses its time.
DecodeJwtToken(r) ==
    /\ token[r].step = "idle"
    /\ \E k \in {x \in Keys : InRealm(x) \/ retired[x] # Never} \cup {Never}, good \in BOOLEAN :
          LET came == [Waiting EXCEPT !.key = k, !.good = good, !.since = now, !.whole = InRealm(k)]
          IN  IF Usable /\ k \in copy
              THEN /\ token' = [token EXCEPT ![r] = Verdict([came EXCEPT !.age = now - copied], copy)]
                   /\ UNCHANGED copied
              ELSE /\ token' = [token EXCEPT ![r] = [came EXCEPT !.step = "fetch", !.looks = IF Usable THEN 2 ELSE 1]]
                   /\ copied' = IF Usable THEN Never ELSE copied
    /\ UNCHANGED <<now, published, retired, copy, refusals>>

\* The identity server answers with the keys of this moment; the answer is on its way.
ServeKeys(r) ==
    /\ token[r].step = "fetch"
    /\ token' = [token EXCEPT ![r].step = "answered", ![r].got = published]
    /\ UNCHANGED <<now, published, retired, copy, copied, refusals>>

\* The token's key is sought in keys: found, or not found twice, ends the request; not found
\* once resets the time and fetches again.
Look(r, keys, stamp) ==
    IF token[r].key \in keys \/ token[r].looks = 2
    THEN /\ token' = [token EXCEPT ![r] = Verdict(@, keys)]
         /\ copied' = stamp
    ELSE /\ token' = [token EXCEPT ![r].step = "fetch", ![r].looks = 2, ![r].got = {}, ![r].since = now]
         /\ copied' = Never

\* Mutant: the copy is stamped when it arrives.
KeysArrive_StampedLate(r) ==
    /\ token[r].step = "answered"
    /\ copy' = token[r].got
    /\ Look(r, token[r].got, now)
    /\ UNCHANGED <<now, published, retired, refusals>>

\* The answer replaces the copy, a newer one too, with the time from before the call.
KeysArrive(r) ==
    /\ token[r].step = "answered"
    /\ copy' = token[r].got
    /\ Look(r, token[r].got, token[r].since)
    /\ UNCHANGED <<now, published, retired, refusals>>

\* The identity server does not answer: an old copy serves, without one the request gets a 503.
KeysRefused(r) ==
    /\ token[r].step = "fetch" /\ refusals < MaxRefusals
    /\ refusals' = refusals + 1
    /\ IF copy = NoCopy THEN token' = [token EXCEPT ![r].step = "unavailable"] /\ UNCHANGED copied
                        ELSE Look(r, copy, copied)
    /\ UNCHANGED <<now, published, retired, copy>>

Leave(r) ==
    /\ token[r].step \in {"accepted", "refused", "unavailable"}
    /\ token' = [token EXCEPT ![r] = Waiting]
    /\ UNCHANGED <<now, published, retired, copy, copied, refusals>>

KeysNext ==
    \/ Rotate \/ Tick
    \/ \E r \in Requests : DecodeJwtToken(r) \/ ServeKeys(r) \/ KeysArrive(r) \/ KeysRefused(r) \/ Leave(r)

KeysSpec == KeysInit /\ [][KeysNext]_keyVars

-----------------------------------------------------------------------------
\* While the identity server answers, a token whose key was in the realm all along is not refused,
\* however the copies other requests fetched have replaced one another.
GoodTokensPass ==
    refusals = 0 => \A r \in Requests : token[r].step = "refused" => ~token[r].whole

\* A token of a retired key passes only for the life of a copy after its retirement, and longer
\* only from a copy that is older than a day, or when the identity server did not answer.
RetiredKeysExpire ==
    refusals = 0 => \A r \in Requests :
        token[r].step = "accepted" /\ retired[token[r].key] # Never =>
            token[r].since - retired[token[r].key] < TTL \/ token[r].age >= Day

\* Signing keys come and go without refusing the good or keeping the old.
KeysServe == GoodTokensPass /\ RetiredKeysExpire
=============================================================================
