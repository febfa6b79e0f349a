---------------------------- MODULE MCIssuerKey -----------------------------
(* Instances of IssuerKey for TLC: documents, lifetimes and symmetry.      *)
EXTENDS IssuerKey, TLC

CONSTANTS p1, p2, kid1, kid2, u1, u2, bodyA, bodyB, bodyC

\* bodyA has kid1's key and bodyB kid2's; bodyC has both, kid2's unusable.
MCVerdict ==
    [body \in JwksBodies |-> [k \in Kids |->
        IF <<body, k>> \in {<<bodyA, kid1>>, <<bodyB, kid2>>, <<bodyC, kid1>>}
        THEN "ok"
        ELSE IF body = bodyC THEN "invalid"
        ELSE "not_found"]]

Life(valid, cacheable, revalidate, ttl) ==
    [valid |-> valid, cacheable |-> cacheable,
     revalidation_required |-> revalidate, ttl |-> ttl]

\* Cache-Control of each kind: max-age, no-store, must-revalidate, malformed.
MaxAge(ttl) == Life(TRUE, TRUE, FALSE, ttl)
NoStore == Life(TRUE, FALSE, FALSE, 1)
MustRevalidate == Life(TRUE, TRUE, TRUE, 1)
Malformed == Life(FALSE, FALSE, FALSE, 0)

Plain == {MaxAge(1)}
Long == {MaxAge(2)}
Fragile == {MaxAge(1), Malformed}
Mixed == {MaxAge(1), NoStore, MustRevalidate, Malformed}

MCOversized == {JwksKey(p1, u2)}

Symmetry == Permutations(Backends)
=============================================================================
