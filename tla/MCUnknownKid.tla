---------------------------- MODULE MCUnknownKid ----------------------------
(***************************************************************************)
(* A history variable on IssuerKey: for each JWKS entry, the time of the   *)
(* last refresh that brought no key of the name the token gave.            *)
(***************************************************************************)
EXTENDS MCIssuerKey

VARIABLE last_miss

Never == -100

Misses(b) ==
    /\ At(b, "jwks_complete")
    /\ call[b].response # NoPayload
    /\ jwks_select(b, call[b].response) = "not_found"

InitH == Init /\ last_miss = [k \in Keys |-> Never]

\* Which backend moves is read off the step: only its location changes.
NextH ==
    /\ Next
    /\ last_miss' =
            IF CrashRestart THEN [k \in Keys |-> Never]
            ELSE [k \in Keys |->
                    IF \E b \in Backends :
                            Misses(b) /\ pc'[b] # pc[b] /\ JwksDocKey(b) = k
                    THEN call[CHOOSE b \in Backends :
                            Misses(b) /\ pc'[b] # pc[b] /\ JwksDocKey(b) = k].cache_now
                    ELSE last_miss[k]]

SpecH == InitH /\ [][NextH]_<<vars, last_miss>>

(* ADR 0002: refreshes for unknown key identifiers are "limited by the     *)
(* exact issuer entry's monotonic cooldown".  Two refreshes of one entry   *)
(* that do not find the token's key are a cooldown apart.                  *)
CooldownLimitsMisses ==
    [][\A b \in Backends :
            Misses(b) /\ pc'[b] \in {"jwks_notify", "idle"} =>
                call[b].cache_now - last_miss[JwksDocKey(b)] >= Cooldown
      ]_<<vars, last_miss>>
=============================================================================
