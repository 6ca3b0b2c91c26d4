---------------------------- MODULE MCOnboarding ----------------------------
(***************************************************************************)
(* Onboarding with two uploads that may be the same form sent twice, one   *)
(* run of reconcile, two versions of the offer, the second a draft or      *)
(* approved, and MaxActs acts: those an activation takes, one fewer when   *)
(* the identity has been saved before, so that one can come in between.    *)
(***************************************************************************)
EXTENDS OnboardingPages

CONSTANTS v1, v2
=============================================================================
