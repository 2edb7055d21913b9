--------------------------- MODULE SubdomainNames ---------------------------
(***************************************************************************)
(* The names create-organization derives from a slug.  A DNS label counts  *)
(* by its length and by whether it is one of RESERVED_SUBDOMAINS; both     *)
(* patterns ask for the same characters, and normalisation has been done.  *)
(***************************************************************************)
EXTENDS Naturals

Label == [length : Nat, reserved : BOOLEAN]

(* SLUG_PATTERN: a first and a last character, 1 to 58 between them        *)
IsSlug(l) == l.length \in 3 .. 60

(* SUBDOMAIN_PATTERN: the same with 1 to 61 between them                   *)
FitsPattern(l) == l.length \in 3 .. 63

CanBeAutoProvisioned(l) == FitsPattern(l) /\ ~l.reserved

(* Subdomain.create, which the aggregate calls with what was provisioned   *)
Create(l) == IF ~FitsPattern(l) THEN "INVALID_SUBDOMAIN"
             ELSE IF l.reserved THEN "RESERVED_SUBDOMAIN"
             ELSE "created"

(* No reserved word has a hyphen.                                          *)
Lengthened(l, n) == [length |-> l.length + n, reserved |-> FALSE]

(* `${candidate}-x` where the slug itself will not do                      *)
BaseOf(l) == IF CanBeAutoProvisioned(l) THEN l ELSE Lengthened(l, 2)

(* randomInt(0, 1_000_000)                                                 *)
RandomInts == {n \in Nat : n < 1000000}

Digits(n) == IF n < 10 THEN 1
             ELSE IF n < 100 THEN 2
             ELSE IF n < 1000 THEN 3
             ELSE IF n < 10000 THEN 4
             ELSE IF n < 100000 THEN 5
             ELSE 6

(* `${base}-${n}`                                                          *)
WithSuffix(base, n) == Lengthened(base, 1 + Digits(n))
=============================================================================
