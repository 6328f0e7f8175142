---------------------------- MODULE MCSettingsPage ----------------------------
EXTENDS SettingsPage, FiniteSets, TLC

(* One instance, and it is the default. *)
OneDefault ==
  {s \in Sections : /\ Sound(s)
                    /\ Cardinality(s.instances) = 1
                    /\ s.default # NoAlias
                    /\ s.refs = {}}

(* Pages, aliases and profiles are interchangeable. *)
NameSymmetry ==
  Permutations(Pages) \cup Permutations(Aliases) \cup Permutations(Profiles)
=============================================================================
