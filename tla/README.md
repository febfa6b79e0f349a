# TLA+ models of pg_oauth_validator

pg_oauth_validator decides, inside a new PostgreSQL backend, whether a bearer
token may log in. Each backend runs the callback once and sequentially. Two
things make the program hard to test. The backends share a fixed-size cache of
issuer metadata and JWKS documents, refreshed by one backend at a time while
others wait, over HTTP requests that can fail, stall or be interrupted. And the
decision is spread over a dozen files that check the same texts, lists and limits
again, each in its own way, and have to agree. These modules model both, check
them with TLC and prove with TLAPS what matters most.

Paths below are relative to the repository; C files are in `src/`.

## The system and its modules

| Part | Source | Module | Extent |
| --- | --- | --- | --- |
| Cache state machine | `cache_state.c` | `CacheState`, `CacheClients`, `SingleFlight` | all operations |
| Shared segment, lock, waits | `shared_cache.c` | `SharedCache` (attachment: `Validator`) | all but reading statistics |
| Cache keys | `cache_key.c` | `CacheKey` | every byte |
| Metadata and key retrieval | `issuer_key.c` | `IssuerKey` | all of the cached path |
| HTTP transport | `http_transport.c` | `HttpTransport` | one whole request |
| HTTP freshness | `http_freshness.c` | `HttpFreshness` | all |
| Pipeline and callback | `validator.c`, `pg_oauth_validator.c` | `Validator`, `TokenDecision` | control in one, results in the other |
| Policy | `policy.c`, `config.c`, `hba_policy.c` | `Policy` | all but the registration of settings |
| Envelope, keys, metadata, claims | `jwt_envelope.c`, `jwks.c`, `metadata.c`, `claims.c` | `JwtEnvelope`, `Jwks`, `Metadata`, `Claims` | every check in its order |
| Base64url | `base64url.c` | `Base64url` | all, on bytes |
| Texts checked twice | `identity.c`, and parts of the above | `TextChecks` | on bytes |
| Signature | `signature.c` | `TokenDecision` | which key and algorithm; no cryptography |

Three modules compose these parts.

- `IssuerKey` EXTENDS `SharedCache`, which EXTENDS `CacheState`: all backends on
  one segment. `CacheClients` EXTENDS `CacheState` on its own, with weaker
  assumptions on the callers.
- `TokenDecision` EXTENDS the modules of the policy and of the stages: the decision
  from the settings to the identity.
- `MCTextInputs` EXTENDS `EncodingInputs` (with `Base64url` and `CacheKey`) and
  `TextInputs` (with `TextChecks`), which are about the same texts, those of
  `Inputs`.

`HttpTransport` and `HttpFreshness` open up what `IssuerKey` treats as one step
(`MetaHttp`, `JwksHttp`) and as the constant sets `MetaLifetimes` and
`JwksLifetimes`. `Validator` treats `IssuerKey`'s function as a few steps with open
results, `TokenDecision` as the results without a cache. `IssuerKey` uses records
for cache keys, which is justified by the proof about `CacheKey`. These
connections are by argument, not by a checked refinement; the one from
`CacheClients` to `SingleFlight` is checked and proved.

Operators keep the C names where they compute what a C function returns
(`find_refresh_slot`, `bounded_add`); actions have CamelCase names. An operator
`X_Y` before `X` is `X` with a plausible mistake. No specification uses it; it
shows that a property can tell the code from its near misses.

### CacheState, CacheClients and SingleFlight

`entries` is the array of `PgOAuthCacheEntry`, `next_serial` the counter of the
control block. `Lookup`, `BeginRefresh` and `CompleteRefresh` are the operations,
one step each, as the callers hold the lock. Keys and documents are opaque;
`NoPayload` stands for a body that is missing, empty or too large. `TimeMax` and
`SerialMax` stand for `INT64_MAX` and `UINT64_MAX`.

`CacheClients` lets callers complete with any token ever issued, at any time and
repeatedly, and use any timestamp up to the present one. `issued` and `settled`
are history.

`SingleFlight` is what callers rely on, without entries, serials or flags: at most
one document and one refresh in flight per key; a flight lands once; only its
landing replaces a document of its key, and a flight of another key pushes a
document out only when it has expired. `CacheClients` implements it with

- `held`: the documents of the occupied entries that have one,
- `flights`: the issued tokens that are not settled.

### SharedCache and IssuerKey

A wait (`pg_oauth_shared_cache_wait_refresh`) is the steps prepare, check, sleep,
recheck; `cv` is the queue of the one condition variable. The broadcast is a step
after the one that completes the refresh, as the code broadcasts after it has
released the lock. A broadcast for another key ends a wait before its deadline and
the waiter looks once more and then fails; a comment in `shared_cache.c` accepts
this, and the model does it. PostgreSQL's condition variable is external.

In `IssuerKey`, `pc[b]` is where backend `b` is in
`pg_oauth_issuer_key_fetch_cached`, `call[b]` its arguments and locals, and
`refresh[b]` its token. A metadata document is the URL it names; a JWKS document is
the verdict of `pg_oauth_jwks_select` for each key identifier. Each carries its
origin, the time it was produced and its freshness, so that properties can
speak of them. A backend may be ended in its sleep (`ExitAsleep`), the only
place in the function where PostgreSQL services interrupts. A crash
(`CrashRestart`) ends all backends and recreates the segment.

### HttpTransport and HttpFreshness

`HttpTransport` is one call of `pg_oauth_http_get_json`. libcurl is external: it
delivers header lines and body chunks in any cut and ends the transfer with any
result. Lengths stand for contents. The `size_t` arithmetic of
`append_header_value` is modulo `SizeMax + 1`. `held` are the locals that are set,
`live` the objects that exist: each call that allocates adds to both, and each line
behind the label `done` is a step that takes from `live` what that line frees,
guarded as in the code. `added` stands for libcurl's link between the two handles.

`HttpFreshness` captures header lines in any order and computes the freshness
after each. A Cache-Control line is a sequence of items, a name and an argument.
A Date or Expires value is a sequence of parts, each of which sets one field of a
date (weekday, day, month, year, time, zone) or none; a further line adds its parts.
`curl_getdate` is external. It reads the first six parts and ignores the rest, fails
if one of them is unknown or sets a field again, and needs day, month and year. In
libcurl which field a number sets depends also on what is set before it; parts are
exact for values in which a day is followed by its month and year.

### Validator

`att[b]` is one backend's attempt: its location, what it has allocated or owns
(`held`), the stages passed, a pending interrupt and the result. A stage may pass or
fail freely. The segment is its capacity; `Reload` changes the setting.

### TokenDecision and the modules of the stages

`verdict` is the stage at which the callback refuses the token and the error, or
acceptance. It is a function of the settings (`config`), the HBA rule (`hba`), the
requested role, the clock, the two documents the issuer serves and the token, each
of which the actions change. `pg_oauth_policy_build` and the checks of each stage
keep the order of the code, so that the first error is the one reported.

JSON values are records with a kind (`JsonValues`). Texts are opaque; what the code
finds in them is given by functions that are CONSTANTS: their size, the entries of a
comma-separated list (`Entries` as `policy.c` splits it, `HostEntries` as the
transport does, which trims blanks and tabs only), the words of a scope string, the
scheme and host of a URL, and whether they contain a control character: `Control`
for those `iscntrl` finds, `HighControl` for U+0080 to U+009F, which only identities
must not contain. A metadata document says whether there is memory for the copy of
its `jwks_uri`. So the theorems about `TokenDecision` hold whatever these functions
are, and how the code computes them from bytes is the subject of `TextChecks`. Key
parameters are a bit length, the number of leading zeros and whether they are odd;
whether a point is on its curve is open. A signature is valid for the key material
that made it.

### TextChecks, Base64url, CacheKey and their inputs

Texts are sequences of bytes and a loop over a text is a recursive function of its
cursor. `Inputs` builds every text up to a length over an alphabet, one byte a step.
`EncodingInputs` and `TextInputs` state what must hold of the results: inverse
functions, agreement of two parsers of the same text, or equality with a second
definition, most of them without loops (`Listed`, `Words`, `WellFormed`).

## Runs

| Run | Configuration | Checks |
| --- | --- | --- |
| cache_clients | `MCCacheClients.cfg` | refreshes are neither lost nor carried out twice, unexpired documents and cooldowns are kept; the cache implements `SingleFlight` |
| issuer_reuse | `IssuerKeyReuse.cfg` | `NoLostWakeup`; no document outlives its lifetime by more than one wait timeout, no-store documents are not shared, a received JWKS document overrides a stale key, with headers of every kind |
| issuer_pressure | `IssuerKeyPressure.cfg` | two policies, four keys, two entries, headers that may not parse: types, ownership, and no document crosses policies |
| issuer_live | `IssuerKeyLive.cfg` | every validation ends |
| http_transport | `HttpTransport.cfg` | the body's bound, completeness, ownership of what is allocated on every way out, interrupts, termination |
| http_freshness | `HttpFreshness.cfg` | lifetimes never extended; joining lines loses no directive, and only a max-age or a date that is not yet complete can add to the reuse of a response |
| validator | `Validator.cfg` | the decision, clean-up on every way out, agreement on the capacity |
| text | `MCTextInputs.cfg` | base64url has one spelling and its size checks are exact; identities, lists, URLs and scopes mean the same to every part that reads them; keys of different policies differ |
| token | `MCTokenDecision.cfg` | an accepted token was signed with the one key its issuer publishes for it and covers the connection; time only expires it; keys under other identifiers change no decision; stricter settings accept nothing new; no accepted policy makes a stage fail on its arguments |

Three more runs end in a counterexample; each states what a document says.

| Run | What the documentation says | What the code does |
| --- | --- | --- |
| issuer_lifetime | `max-age` and `Expires` are honoured (ADR 0002, line 67) | An early wake-up still reports the whole timeout as elapsed, so the JWKS fetched next is dated up to one timeout ahead. |
| unknown_kid | refresh for an unknown `kid` is limited by the cooldown (ADR 0002, line 110) | A cold or expired entry records no cooldown. |
| http_headers | cache headers are bounded (`docs/architecture.md:42`) | A header of exactly 4096 bytes makes the remaining space wrap; further lines are accepted. |

A response with malformed freshness headers is treated as a failed refresh
(`complete_response`) and fails the validation that fetched it, where ADR 0002
(line 72) speaks of an immediately stale response that "may still serve its
initiating request". The model does as the code does.

The same line of ADR 0002 asks for malformed or conflicting freshness directives to
be "immediately stale". The code does not do that for dates. Several Date or Expires
lines become one text, of which `curl_getdate` reads six parts. So two different
whole dates are not a conflict, the first one counts; a line that is no date alone
may be completed by the next; and a time without a date may be added to a date
without a time, which moves it. `LinesOnlyRestrict` therefore speaks of a further
Date or Expires line only when the earlier ones have all the parts that are read. No
run of its own shows this.

`PolicyFeedsStages` has three exceptions. Two are what `policy.c` does not look at:
the form of the scopes of the HBA rule and the length of the requested role. Both
make the claims stage refuse its arguments, after the request for the key. The third
is the metadata stage, which reports a failed allocation as an invalid argument.

### Bounds

The `IssuerKey` runs have two backends: an owner and a waiter, or two owners of
different keys. Protocol steps involve at most one owner of a key and the others see
only its entry; the proofs below cover any number. Time runs to `Horizon`, which
also stands for all later instants, so that every timeout expires; lifetimes, grace,
cooldown and wait timeout are 0, 1 or 2 units, enough for fresh, stale and expired
to differ. `issuer_reuse` has a grace longer than the wait timeout, so that the
slack of `ReuseWithinLifetime` hides no wrong grace, and documents with the token's
key, without it, and with one that is refused. `issuer_pressure` puts `TimeMax`
within reach so that deadlines saturate, and `SerialMax = 2` makes serials wrap; it
has two policies but one key identifier, a JWKS body with its key and one without,
headers that parse or do not, and no grace. `cache_clients` instead bounds the
refreshes of one segment (`MaxRefreshes`), as a token kept for 2^64 refreshes would
otherwise meet its serial again.

`http_transport` bounds header lines (`MaxLines`) and uses sizes around its limits;
`http_freshness` has four header lines (`MaxCaptured`), enough for one of each kind
or two of two kinds, whole dates of six parts beside incomplete ones, and an
`Int64Max` of 7 with three "milliseconds" per "second", so that the conversion
overflows. Backends are interchangeable and the safety runs of `IssuerKey` use that
symmetry; `issuer_live` does not.

`text` has alphabets with every byte that the code distinguishes at that place (for
identities the edges of all UTF-8 ranges) and lengths of four to seven: two base64
blocks, one character of each UTF-8 length, three list entries, four scopes where
three are allowed. `MaxAudiences`, `MaxHosts`, `MaxHostLength`, `MaxScopes`, `MaxUrl`
and `KeyMax` are small, so that texts reach them.

`token` starts from three accepted situations, one per algorithm, and applies any
two changes (`MaxChanges`) out of a list for each field, with the clock at any of
its instants. Two changes suffice for a wrong interplay of two inputs; wider
ones are covered by the proofs. A token's sizes and contents vary
independently, which allows more tokens than there are. Settings stay within the
limits of `config.c`.

Deadlock checking is off where the system may stop: a request that has returned,
headers that have ended, a text of full length, changes used up.

### Fairness

`issuer_live` assumes weak fairness of each backend's own steps and of the clock:
the operating system schedules processes and every transfer has
`CURLOPT_TIMEOUT_MS`. Clients, interrupts and crashes are not fair.
`http_transport` assumes that the function runs and that libcurl ends a transfer
whose timeout has passed. No other run assumes fairness.

## Proofs

Every safety property of a passing run is also a theorem, without the bounds of the
run: for any number of backends, entries, keys and documents, texts of any length
over any bytes, any settings, header lines and cuts of a response. The constants
are arbitrary up to the named assumptions, all of which TLC evaluates in the runs.
They say what kind of thing a constant is (a number, a set of documents, a
record with certain members); the few that say more are the limits which the code
fixes at compile time (`EnvelopeAssumption`, `PolicyAssumption`), that the empty
text has length 0 and is no scope (`SizeAssumption`, `ScopeAssumption`), and that a
default lifetime is at most the maximal one (`FreshnessAssumption`), which
`http_freshness.c` checks.

`CacheStateProofs` has the lemmas on the operations: what `find_refresh_slot` may
choose, what a started, released or published entry looks like, that types are
preserved.

`CacheClientsProofs` proves every property of `cache_clients`, and `TypeOK`,
`UniqueKeys`, `NoValuelessResidue` and `RefreshingHasOwner` besides. The invariant
`IInv` is the conjunction of the state properties with two more facts.
`SerialsInOrder`: serials still to come are larger than those of all issued tokens,
without which a settled token could become valid again. `FreeHasNoRecord`: an entry
that is free has no record of an unknown-kid refresh, which `CooldownSpaced` rests
on. `ClientImplements` is the refinement: under `IInv` every operation is a step of
`SingleFlight` or a stutter. It needs that keys are unique, that an entry of a
flight is never evicted, and that a completion with a settled token is refused.

`IssuerKeyProofs` proves `TypeOK`, `OwnerKeepsEntry`, `RefreshHasOneOwner` and
`AcceptedFromOwnIssuer`. The invariant adds to the first three

- `EntriesHoldDocs`: an entry's document was fetched from the endpoint its key
  names, under the policy its key contains;
- `CallsOK`: what a backend has in its locals at each location.

Ownership there does not rest on serials being fresh, so it holds also when they
wrap: an entry in progress is neither chosen nor evicted by anyone else, and
only its owner has a token for it.

`IssuerSharingProofs` builds on that invariant.

- `Dated` gives `ReuseWithinLifetime`, `NoStoreNotShared` and `ReceivedJwksDecides`.
  It relates the deadlines of each entry to the time and the freshness of its
  document, and the two clocks of each call to the present: the time of the cache is
  ahead of the time of the call by at most the wait timeout. That difference is the
  slack of `ReuseWithinLifetime`, and the proof shows that nothing else adds to it.
- `WakeInv` gives `NoLostWakeup`: keys are unique and only a backend that waits is in
  a wait. A refresh that ends leaves its owner with a broadcast to make, as its
  completion is always accepted, and an entry in progress can end in no other way.

`HttpProofs` is about one request and about the freshness of its response.

- For `HttpTransport` it proves the safety properties of `http_transport`, and that no
  transfer starts to a host that is not allowed (`OnlyAllowedHosts`). The invariant
  says for every location which objects exist and who owns them (`LiveOwned`):
  a local that is set and that the clean-up has not come to (`Left`), a header or
  the body that `*response` points to, or the buffer. `OwnedOnce` follows at the end
  only because of what holds on the way: the order of acquisition, from the checked
  URL to the multi handle (`Acquired`), that the body is in the buffer or moved
  (`BodyMoved`), and that an error has cleared the response (`Cleared`). Further, a
  callback that refused its data ended the transfer (`RefusalEndsTransfer`), and the
  loop ends after a wait with a pending interrupt (`LateStops`).
- For `HttpFreshness` it proves all three properties, for every `INT64_MAX` and every
  number of milliseconds per second. `CacheControlParsed` says what the loop of
  `parse_cache_control` finds in a header of any length; `HeadersInv` that joining
  lines kept every directive captured so far. `FurtherParts` says that parts behind
  the sixth change no date, which `LinesOnlyRestrict` needs.

`CallbackProofs` proves every property of `validator`. The invariant says for each
location which stages were passed (`Passed`), what may be held (`Holds`), and that a
cancelled request's interrupt is still pending up to the callback's check
(`Pending`). `Agreed` with it shows that when there is no segment nobody is past
attaching, so the first backend to attach may lay it out. It also has the proofs
about encodings, `OneSpelling`, `SizeGuard` and `KeysDiffer`. They rest on general
theorems. Two accepted texts with the same value are the same text (`Canonical`),
encoding and decoding are inverse in both directions (`EncodedReturns`,
`DecodedReturns`): all by taking the texts block by block, where each block depends
on no other. The size checks are exact for every `SIZE_MAX` (`SizeGuardExact`).
Policies with equal key bytes agree in every field (`KeyTellsPolicies`): each append
can be taken off the front of two equal byte strings, as its length is fixed or
comes first.

`TextInputsProofs` proves `IdentityExact`, `ListsAgree`, `ScopesExact`,
`UrlChecksAgree` and `IssuerAuthorityKept`. What a loop returns from a position is
shown by induction over the bytes that are left, with a set of numbers in place of a
predicate (`Induction`): the loop is unfolded by one turn, the reference by one
entry, word or character, and the two agree. The invariant is only that inputs are
bytes (`InputOK`).

`DecisionProofs` proves every property of `token`. `ShapeOK` is inductive: numbers are
numbers, arrays have a length, and published keys come from `KeyPool`. The rest is
about single states and steps. Acceptance is taken apart stage by stage, which gives
`AcceptedByOneKey` and `AcceptedIsEntitled`; for `PolicyMonotone` it is restated as a
condition on the settings (`Accepts`), each part of which survives when the settings
become laxer. For `PolicyFeedsStages` each limit that a stage checks of its arguments
follows from what `pg_oauth_policy_build` has checked. For `OtherKeysIrrelevant` the
search is shown to depend only on the keys with the token's identifier: a readable
document ends it early just when there are several of these.

Only model-checked is liveness: `ValidationEnds` and `CallReturns` hold under
fairness, which TLAPS cannot reason about. The three runs that end in a
counterexample have no theorem, of course.

## Not modelled

- JSON syntax (jansson), URL syntax beyond what the code looks at itself (libcurl),
  signatures and the curve equation (libjwt, OpenSSL). They are external: parsed
  values, a URL parser that may refuse anything, a signature that is valid or not.
- The retrieval path without a cache, which only tests call; statistics, numeric
  error codes, logging; module loading and the registration of settings and of the
  HBA option.
- Interim responses and trailers, whose header lines libcurl hands to the same
  callback.

## Plan

`Validator`'s retrieval steps and `TokenDecision`'s `issuer_key` as abstractions of
`IssuerKey`, by a refinement mapping.
