------------------------------- MODULE QrService -------------------------------
(***************************************************************************)
(* The QR microservice: POST /api/qr/generate of server.js over the TTL    *)
(* cache of cache.js.  Node runs one handler at a time, but a handler that *)
(* missed the cache awaits the renderer, and other handlers, the sweep     *)
(* timer and the clock run in between.  Time is Date.now(), assumed not to *)
(* go backwards, in coarse units.                                          *)
(***************************************************************************)
EXTENDS Integers

CONSTANTS
    Callers,     \* requests that may be open at the same time
    Uris,        \* upi:// payloads, one per student, amount, reference, purpose
    Styles,      \* the sizePx and eccLevel of a body, as posted
    Logos,       \* logoDataUrl values
    Ttls,        \* ttlSeconds values greater than zero
    DefaultTtl,  \* QR_DEFAULT_TTL_SECONDS
    CacheTtl,    \* QR_CACHE_TTL_SECONDS
    Pause,       \* most time that passes within one run of a handler
    MaxTime,     \* bounds the clock of a run
    None         \* undefined: no logo, no ttlSeconds, no entry, no payload

ASSUME ClockAssumption ==
    /\ Ttls \subseteq Nat \ {0}
    /\ DefaultTtl \in Nat \ {0}
    /\ CacheTtl \in Nat \ {0}
    /\ Pause \in Nat
    /\ MaxTime \in Nat

Request == [uri : Uris \cup {None}, style : Styles,
            logo : Logos \cup {None}, ttl : Ttls \cup {None}]
Keys == [uri : Uris, style : Styles, logo : BOOLEAN]
Code == [uri : Uris, style : Styles, logo : Logos \cup {None}, expiresAt : Nat]
Entry == [value : Code, expiresAtMs : Nat]
Answer == [to : Request, code : Code \cup {None}, at : 0 .. MaxTime]

ASSUME NoneAssumption ==
    None \notin Uris \cup Logos \cup Ttls \cup Request \cup Code \cup Entry \cup Answer

VARIABLES
    now,      \* Date.now()
    cache,    \* cache[k]: the Map entry of key k, None when there is none
    pending,  \* pending[c]: the request caller c awaits a rendering for
    answer    \* the last answer sent, code None for an error

vars == <<now, cache, pending, answer>>

Later(t) == {u \in t .. t + Pause : u <= MaxTime}

EffectiveTtl(r) == IF r.ttl # None THEN r.ttl ELSE DefaultTtl

(* Variant: the flag that tells a branded code is left out of the key. *)
CacheKeyWithoutLogo(r) == [uri |-> r.uri, style |-> r.style, logo |-> FALSE]

CacheKey(r) == [uri |-> r.uri, style |-> r.style, logo |-> r.logo # None]

(* Variants: the third argument of cache.set left out; the cap forgotten. *)
StoredTtlDefault(ttl) == CacheTtl
StoredTtlUncapped(ttl) == ttl

StoredTtl(ttl) == IF ttl < CacheTtl THEN ttl ELSE CacheTtl

Expired(k) == now > cache[k].expiresAtMs

Hit(k) == cache[k] # None /\ ~Expired(k)

Send(r, code, t) == answer' = [to |-> r, code |-> code, at |-> t]

-----------------------------------------------------------------------------
(* A body without a payload: a field is missing (QR-422-VAL), or the       *)
(* amount is not positive and buildUpiUri throws (QR-400-GEN).             *)
Refuse(c, r) ==
    /\ pending[c] = None
    /\ r.uri = None
    /\ Send(r, None, now)
    /\ UNCHANGED <<now, cache, pending>>

ServeCached(c, r) ==
    /\ pending[c] = None
    /\ r.uri # None
    /\ Hit(CacheKey(r))
    /\ Send(r, cache[CacheKey(r)].value, now)
    /\ UNCHANGED <<now, cache, pending>>

(* TtlCache.get deletes an entry it finds expired; the handler then awaits *)
(* generateQr.                                                             *)
Miss(c, r) ==
    /\ pending[c] = None
    /\ r.uri # None
    /\ ~Hit(CacheKey(r))
    /\ cache' = [cache EXCEPT ![CacheKey(r)] = None]
    /\ pending' = [pending EXCEPT ![c] = r]
    /\ UNCHANGED <<now, answer>>

(* The rendering is there.  expiresAt of the payload and expiresAtMs of    *)
(* the entry are taken from two calls of Date.now().                       *)
Render(c, stored) ==
    LET r == pending[c]
        code == [uri |-> r.uri, style |-> r.style, logo |-> r.logo,
                 expiresAt |-> now + EffectiveTtl(r)]
    IN
    /\ r # None
    /\ stored \in Later(now)
    /\ cache' = [cache EXCEPT ![CacheKey(r)] =
                    [value |-> code,
                     expiresAtMs |-> stored + StoredTtl(EffectiveTtl(r))]]
    /\ pending' = [pending EXCEPT ![c] = None]
    /\ Send(r, code, stored)
    /\ now' = stored

(* generateQr rejects (sizePx out of range, payload too long), or a        *)
(* ttlSeconds beyond the range of Date makes toISOString throw: QR-400-GEN, *)
(* and nothing is stored.                                                  *)
RenderFails(c) ==
    /\ pending[c] # None
    /\ pending' = [pending EXCEPT ![c] = None]
    /\ Send(pending[c], None, now)
    /\ UNCHANGED <<now, cache>>

(* Variant: milliseconds compared with seconds, so nothing ever expires. *)
SweptNever(k) == cache[k]

Swept(k) == IF cache[k] # None /\ Expired(k) THEN None ELSE cache[k]

Sweep ==
    /\ cache' = [k \in Keys |-> Swept(k)]
    /\ UNCHANGED <<now, pending, answer>>

Tick ==
    /\ now < MaxTime
    /\ now' = now + 1
    /\ UNCHANGED <<cache, pending, answer>>

(* The process is started again: the cache lived in its memory only. *)
Restart ==
    /\ cache' = [k \in Keys |-> None]
    /\ pending' = [c \in Callers |-> None]
    /\ UNCHANGED <<now, answer>>

-----------------------------------------------------------------------------
Init ==
    /\ now = 0
    /\ cache = [k \in Keys |-> None]
    /\ pending = [c \in Callers |-> None]
    /\ answer = None

Next ==
    \/ \E c \in Callers :
          \/ \E r \in Request : Refuse(c, r) \/ ServeCached(c, r) \/ Miss(c, r)
          \/ \E stored \in Later(now) : Render(c, stored)
          \/ RenderFails(c)
    \/ Sweep
    \/ Tick
    \/ Restart

Spec == Init /\ [][Next]_vars

(* setInterval runs the sweep every minute for as long as the process lives. *)
FairSpec == Spec /\ WF_vars(Sweep)

-----------------------------------------------------------------------------
TypeOK ==
    /\ now \in 0 .. MaxTime
    /\ cache \in [Keys -> Entry \cup {None}]
    /\ pending \in [Callers -> {r \in Request : r.uri # None} \cup {None}]
    /\ answer \in Answer \cup {None}
    /\ \A k \in Keys : cache[k] # None => cache[k].expiresAtMs <= MaxTime + CacheTtl

Served == answer # None /\ answer.code # None

(***************************************************************************)
(* A caller gets a code for the payload and in the style it asked for,     *)
(* branded exactly when it sent a logo, whoever's rendering filled the     *)
(* cache in the meantime.                                                  *)
(***************************************************************************)
CodeIsForRequest ==
    Served =>
        /\ answer.code.uri = answer.to.uri
        /\ answer.code.style = answer.to.style
        /\ (answer.code.logo # None) = (answer.to.logo # None)

(***************************************************************************)
(* No code is sent after its expiresAt, except by the time that passed     *)
(* between the two readings of the clock in the run that stored it.        *)
(***************************************************************************)
NotServedExpired == Served => answer.at <= answer.code.expiresAt + Pause

(***************************************************************************)
(* Nothing stays servable for longer than QR_CACHE_TTL_SECONDS, however    *)
(* long the ttlSeconds of the request that stored it.                      *)
(***************************************************************************)
CachedBriefly == \A k \in Keys : cache[k] # None => cache[k].expiresAtMs <= now + CacheTtl

(***************************************************************************)
(* An expired entry does not stay in memory: the sweep, or a lookup of the *)
(* same key, removes it, unless a new rendering takes its place.           *)
(***************************************************************************)
StaleEntriesGo ==
    \A k \in Keys :
        cache[k] # None /\ Expired(k) ~> cache[k] = None \/ ~Expired(k)

(***************************************************************************)
(* What a caller may rely on when it hits an entry another request stored: *)
(* the code fits the key, and the entry does not outlive the code.         *)
(***************************************************************************)
EntriesFit ==
    \A k \in Keys : cache[k] # None =>
        /\ cache[k].value.uri = k.uri
        /\ cache[k].value.style = k.style
        /\ (cache[k].value.logo # None) = k.logo
        /\ cache[k].expiresAtMs <= cache[k].value.expiresAt + Pause

(* The inductive invariant: every answer comes from a fit entry or a fresh *)
(* rendering.                                                              *)
IInv ==
    /\ TypeOK
    /\ EntriesFit
    /\ CachedBriefly
    /\ CodeIsForRequest
    /\ NotServedExpired
===============================================================================
