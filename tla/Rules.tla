-------------------------------- MODULE Rules --------------------------------
(***************************************************************************)
(* Which media hear of which checks.  The code answers from both ends: the  *)
(* notifier asks a check for its alerting media (Check#alerting_media), and *)
(* counts the checks of a medium for its summaries (Medium#checks).  Both   *)
(* are written here as they are there, over a set of rules.                 *)
(*                                                                          *)
(* A contact's rules and media only meet each other, so contacts are left   *)
(* out; so are time zones, which both ends apply alike: a rule has the set  *)
(* of hours in which its time restriction occurs.                           *)
(***************************************************************************)
EXTENDS Conditions

CONSTANTS Tags, Media, Checks, Hours, Nil

ASSUME RulesAssumption == \A S \in SUBSET Condition : Nil # S

\* Flapjack::Data::Rule::STRATEGIES
Strategies == {"global", "all_tags", "any_tag", "no_tag"}

\* A Flapjack::Data::Rule with its links; conditions is Nil for a rule that
\* lists none.
Rule ==
  [enabled    : BOOLEAN,
   blackhole  : BOOLEAN,
   strategy   : Strategies,
   conditions : (SUBSET Condition) \cup {Nil},
   hours      : SUBSET Hours,
   tags       : SUBSET Tags,
   media      : SUBSET Media,
   hasMedia   : BOOLEAN]

\* is_occurring_at?
OccurringAt(rules, hour) == {r \in rules : hour \in r.hours}

\* matcher_by_strategy: does a check with these tags fall under the rule?
TagsMatch(r, tags) ==
  \/ r.strategy = "global"
  \/ r.strategy = "all_tags" /\ r.tags \subseteq tags
  \/ r.strategy = "any_tag" /\ r.tags \cap tags # {}
  \/ r.strategy = "no_tag" /\ r.tags \cap tags = {}

-----------------------------------------------------------------------------
(* From the check's end *)

\* Check#matching_rule_ids
MatchingRules(rules, tags, black, severity) ==
  {r \in rules :
     /\ r.enabled
     /\ r.blackhole = black
     /\ r.conditions = Nil \/ severity \in r.conditions
     /\ TagsMatch(r, tags)}

\* Rule.matching_media_ids: rules not marked as having media are left out.
MatchingMedia(rules, hour) ==
  UNION {r.media : r \in OccurringAt({s \in rules : s.hasMedia}, hour)}

\* Faulty: blackhole rules are not applied.
AcceptingMedia(rules, tags, severity, hour) ==
  MatchingMedia(MatchingRules(rules, tags, FALSE, severity), hour)

\* Check#alerting_media, as the notifier calls it
AlertingMedia(rules, tags, severity, hour) ==
  MatchingMedia(MatchingRules(rules, tags, FALSE, severity), hour)
    \ MatchingMedia(MatchingRules(rules, tags, TRUE, severity), hour)

-----------------------------------------------------------------------------
(* From the medium's end *)

\* Rule.matching_checks: nothing falls under a rule without tags.
MatchingChecks(rules, tagsOf) ==
  {c \in Checks :
     \E r \in rules : /\ r.strategy # "global"
                      /\ r.tags # {}
                      /\ TagsMatch(r, tagsOf[c])}

\* The medium's own rules, acceptors or rejectors.
RulesOf(rules, m, black, hour) ==
  OccurringAt({r \in rules : m \in r.media /\ r.enabled /\ r.blackhole = black},
              hour)

HasGlobal(rules) == \E r \in rules : r.strategy = "global"

\* Faulty: with several acceptors, the global one is forgotten.
ChecksByTags(rules, tagsOf, m, hour) ==
  MatchingChecks(RulesOf(rules, m, FALSE, hour), tagsOf)
    \ MatchingChecks(RulesOf(rules, m, TRUE, hour), tagsOf)

\* Medium#checks
ChecksOf(rules, tagsOf, m, hour) ==
  LET acceptors == RulesOf(rules, m, FALSE, hour)
      rejectors == RulesOf(rules, m, TRUE, hour)
      accepted  == IF HasGlobal(acceptors) THEN Checks
                   ELSE MatchingChecks(acceptors, tagsOf)
  IN  IF HasGlobal(rejectors) THEN {}
      ELSE accepted \ MatchingChecks(rejectors, tagsOf)

-----------------------------------------------------------------------------

\* A rule whose two ends can agree: it is marked as having media exactly if it
\* has some, and it has tags if its strategy goes by them.
Settled(r) ==
  /\ r.hasMedia = (r.media # {})
  /\ r.strategy = "global" \/ r.tags # {}

=============================================================================
