------------------------ MODULE SubdomainNamesProofs ------------------------
(***************************************************************************)
(* What a creation can be provisioned with, for every slug and every       *)
(* random suffix.                                                          *)
(***************************************************************************)
EXTENDS SubdomainNames, TLAPS

LEMMA DigitsBounds ==
    ASSUME NEW n \in RandomInts
    PROVE  Digits(n) \in 1 .. 6 /\ (Digits(n) <= 2 <=> n < 100)
<1>1. n \in Nat
  BY SMT DEF RandomInts
<1>2. CASE n < 100
  <2>1. Digits(n) = IF n < 10 THEN 1 ELSE 2
    BY SMT, <1>1, <1>2 DEF Digits
  <2> QED BY SMT, <1>2, <2>1
<1>3. CASE ~(n < 100)
  <2>1. ~(n < 10)
    BY SMT, <1>1, <1>3
  <2>2. Digits(n) \in {3, 4, 5, 6}
    BY SMT, <1>3, <2>1 DEF Digits
  <2> QED BY SMT, <1>3, <2>2
<1> QED BY <1>2, <1>3

LEMMA BaseLength ==
    ASSUME NEW l \in Label, IsSlug(l)
    PROVE  /\ BaseOf(l) \in Label
           /\ ~BaseOf(l).reserved
           /\ BaseOf(l).length \in 3 .. 62
BY DEF Label, IsSlug, BaseOf, CanBeAutoProvisioned, FitsPattern, Lengthened

(* provisionSubdomain's first choice is always one that Subdomain.create   *)
(* accepts, reserved slugs included: a creation that meets no collision    *)
(* never fails for its name.                                               *)
THEOREM FirstChoiceIsAccepted ==
    ASSUME NEW l \in Label, IsSlug(l)
    PROVE  Create(BaseOf(l)) = "created"
BY BaseLength DEF Create, FitsPattern, Label

(* A suffixed name is accepted exactly when the label stays within 63      *)
(* characters: the length of the base decides which random suffixes the    *)
(* aggregate then refuses, although the lookup found the name free.        *)
THEOREM SuffixMustFit ==
    ASSUME NEW l \in Label, IsSlug(l), NEW n \in RandomInts
    PROVE  LET s == WithSuffix(BaseOf(l), n) IN
           /\ Create(s) = "created" <=> BaseOf(l).length + Digits(n) <= 62
           /\ Create(s) # "created" => Create(s) = "INVALID_SUBDOMAIN"
BY BaseLength, DigitsBounds DEF Create, FitsPattern, Label, WithSuffix, Lengthened

(* Up to 56 characters no suffix is ever refused.                          *)
THEOREM ShortSlugsAlwaysFit ==
    ASSUME NEW l \in Label, IsSlug(l), BaseOf(l).length <= 56, NEW n \in RandomInts
    PROVE  Create(WithSuffix(BaseOf(l), n)) = "created"
<1>1. BaseOf(l).length + Digits(n) <= 62
  BY BaseLength, DigitsBounds DEF Label
<1> QED BY <1>1, SuffixMustFit

(* A slug of the full 60 characters gets a suffix only from the first      *)
(* hundred of the million: a collision then nearly always ends the         *)
(* creation with INVALID_SUBDOMAIN.                                        *)
THEOREM LongestSlugsSeldomFit ==
    ASSUME NEW l \in Label, l.length = 60, ~l.reserved, NEW n \in RandomInts
    PROVE  Create(WithSuffix(BaseOf(l), n)) = "created" <=> n < 100
<1>1. IsSlug(l) /\ BaseOf(l) = l
  BY DEF IsSlug, BaseOf, CanBeAutoProvisioned, FitsPattern, Label
<1>2. Create(WithSuffix(BaseOf(l), n)) = "created" <=> 60 + Digits(n) <= 62
  BY <1>1, SuffixMustFit
<1> QED BY <1>2, DigitsBounds
=============================================================================
