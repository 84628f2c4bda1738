---------------------------- MODULE RoutingProofs ----------------------------
(***************************************************************************)
(* The routing answers the same from both ends, for every set of rules, and *)
(* the JSON API keeps the rules well-formed.                                *)
(***************************************************************************)
EXTENDS Routing, TLAPS

(* A medium is among those of some rules exactly if one of them, marked as     *)
(* having media, has it and is in force at the hour (matching_media_ids).      *)
LEMMA InMatchingMedia ==
  ASSUME NEW R, NEW hour, NEW m
  PROVE  m \in MatchingMedia(R, hour)
           <=> \E r \in R : r.hasMedia /\ hour \in r.hours /\ m \in r.media
BY DEF MatchingMedia, OccurringAt

(* What Check#alerting_media returns: the medium is in an acceptor's, and in   *)
(* no rejector's, that falls to the check.                                     *)
LEMMA InAlertingMedia ==
  ASSUME NEW R, NEW tags, NEW severity, NEW hour, NEW m
  PROVE  m \in AlertingMedia(R, tags, severity, hour)
           <=> /\ \E r \in MatchingRules(R, tags, FALSE, severity) :
                    r.hasMedia /\ hour \in r.hours /\ m \in r.media
               /\ ~ \E r \in MatchingRules(R, tags, TRUE, severity) :
                    r.hasMedia /\ hour \in r.hours /\ m \in r.media
BY InMatchingMedia DEF AlertingMedia

(* A rule the medium's end considers, global or with the check's tags, falls   *)
(* to the check.                                                               *)
Falls(r, tags) ==
  r.strategy = "global" \/ (r.tags # {} /\ TagsMatch(r, tags))

(* What Medium#checks returns: some acceptor of the medium, and no rejector,   *)
(* falls to the check.                                                         *)
LEMMA InChecksOf ==
  ASSUME NEW R, NEW tagging, NEW hour, NEW m, NEW c \in Checks
  PROVE  c \in ChecksOf(R, tagging, m, hour)
           <=> /\ \E r \in RulesOf(R, m, FALSE, hour) : Falls(r, tagging[c])
               /\ ~ \E r \in RulesOf(R, m, TRUE, hour) : Falls(r, tagging[c])
<1> DEFINE acceptors == RulesOf(R, m, FALSE, hour)
           rejectors == RulesOf(R, m, TRUE, hour)
           accepted  == IF HasGlobal(acceptors) THEN Checks
                        ELSE MatchingChecks(acceptors, tagging)
<1>1. ASSUME NEW S
      PROVE  (\E r \in S : Falls(r, tagging[c]))
               <=> HasGlobal(S) \/ c \in MatchingChecks(S, tagging)
  BY DEF Falls, HasGlobal, MatchingChecks
<1>2. c \in accepted <=> \E r \in acceptors : Falls(r, tagging[c])
  <2> HIDE DEF acceptors
  <2> QED BY <1>1
<1>3. c \in ChecksOf(R, tagging, m, hour)
        <=> /\ c \in accepted
            /\ ~HasGlobal(rejectors)
            /\ c \notin MatchingChecks(rejectors, tagging)
  BY DEF ChecksOf
<1>4. (\E r \in rejectors : Falls(r, tagging[c]))
        <=> HasGlobal(rejectors) \/ c \in MatchingChecks(rejectors, tagging)
  BY <1>1
<1> QED
  <2> HIDE DEF acceptors, rejectors, accepted
  <2> QED BY <1>2, <1>3, <1>4 DEF acceptors, rejectors

(* Where has_media is right, rules that go by tags have some and none lists    *)
(* conditions, a medium hears of the checks that it counts                     *)
(* (Check#alerting_media, Medium#checks).                                      *)
LEMMA EndsMeet ==
  ASSUME NEW R, NEW tagging, NEW c \in Checks, NEW m, NEW severity, NEW hour,
         \A r \in R : r.enabled /\ m \in r.media =>
           Settled(r) /\ r.conditions = Nil
  PROVE  m \in AlertingMedia(R, tagging[c], severity, hour)
           <=> c \in ChecksOf(R, tagging, m, hour)
<1>1. ASSUME NEW black \in BOOLEAN
      PROVE  (\E r \in MatchingRules(R, tagging[c], black, severity) :
                r.hasMedia /\ hour \in r.hours /\ m \in r.media)
               <=> \E r \in RulesOf(R, m, black, hour) : Falls(r, tagging[c])
  <2>1. ASSUME NEW r \in R
        PROVE  (/\ r \in MatchingRules(R, tagging[c], black, severity)
                /\ r.hasMedia /\ hour \in r.hours /\ m \in r.media)
                 <=> (/\ r \in RulesOf(R, m, black, hour)
                      /\ Falls(r, tagging[c]))
    BY DEF MatchingRules, RulesOf, OccurringAt, Falls, Settled, TagsMatch
  <2>2. /\ MatchingRules(R, tagging[c], black, severity) \subseteq R
        /\ RulesOf(R, m, black, hour) \subseteq R
    BY DEF MatchingRules, RulesOf, OccurringAt
  <2> QED BY <2>1, <2>2
<1>2. m \in AlertingMedia(R, tagging[c], severity, hour)
        <=> /\ \E r \in MatchingRules(R, tagging[c], FALSE, severity) :
                 r.hasMedia /\ hour \in r.hours /\ m \in r.media
            /\ ~ \E r \in MatchingRules(R, tagging[c], TRUE, severity) :
                 r.hasMedia /\ hour \in r.hours /\ m \in r.media
  BY InAlertingMedia
<1>3. c \in ChecksOf(R, tagging, m, hour)
        <=> /\ \E r \in RulesOf(R, m, FALSE, hour) : Falls(r, tagging[c])
            /\ ~ \E r \in RulesOf(R, m, TRUE, hour) : Falls(r, tagging[c])
  BY InChecksOf
<1>4. TRUE \in BOOLEAN /\ FALSE \in BOOLEAN
  OBVIOUS
<1> QED BY <1>1, <1>2, <1>3, <1>4

-----------------------------------------------------------------------------

(* EndsAgree holds of every set of rules, reachable or not: it compares two    *)
(* computations.                                                               *)
LEMMA Agreement == EndsAgree
<1> SUFFICES
      ASSUME \A r \in RuleSet : r.enabled => Settled(r) /\ r.conditions = Nil,
             NEW c \in Checks, NEW m \in Media, NEW severity \in Condition,
             NEW hour \in Hours
      PROVE  m \in AlertingMedia(RuleSet, tagsOf[c], severity, hour)
               <=> c \in ChecksOf(RuleSet, tagsOf, m, hour)
  BY DEF EndsAgree
<1> HIDE DEF RuleSet
<1> QED BY EndsMeet

(* AlertedIsCounted, likewise.                                                 *)
LEMMA Counting == AlertedIsCounted
<1> SUFFICES
      ASSUME \A r \in RuleSet :
               /\ r.strategy = "global" \/ r.tags # {}
               /\ r.blackhole => Settled(r) /\ r.conditions = Nil,
             NEW c \in Checks, NEW m \in Media, NEW severity \in Condition,
             NEW hour \in Hours,
             m \in AlertingMedia(RuleSet, tagsOf[c], severity, hour)
      PROVE  c \in ChecksOf(RuleSet, tagsOf, m, hour)
  BY DEF AlertedIsCounted
<1>1. /\ \E r \in MatchingRules(RuleSet, tagsOf[c], FALSE, severity) :
           r.hasMedia /\ hour \in r.hours /\ m \in r.media
      /\ ~ \E r \in MatchingRules(RuleSet, tagsOf[c], TRUE, severity) :
           r.hasMedia /\ hour \in r.hours /\ m \in r.media
  <2> HIDE DEF RuleSet
  <2> QED BY InAlertingMedia, Zenon
<1>2. PICK r \in MatchingRules(RuleSet, tagsOf[c], FALSE, severity) :
        r.hasMedia /\ hour \in r.hours /\ m \in r.media
  BY <1>1
<1>3. r \in RulesOf(RuleSet, m, FALSE, hour) /\ Falls(r, tagsOf[c])
  BY <1>2 DEF MatchingRules, RulesOf, OccurringAt, Falls
<1>4. ASSUME NEW s \in RulesOf(RuleSet, m, TRUE, hour), Falls(s, tagsOf[c])
      PROVE  FALSE
  <2>1. /\ s \in MatchingRules(RuleSet, tagsOf[c], TRUE, severity)
        /\ s.hasMedia /\ hour \in s.hours /\ m \in s.media
    BY <1>4 DEF MatchingRules, RulesOf, OccurringAt, Falls, Settled, TagsMatch
  <2> QED BY <1>1, <2>1
<1> QED
  <2> HIDE DEF RuleSet
  <2> QED BY <1>3, <1>4, InChecksOf

(* Through every sequence of requests, the notifier's two questions have the   *)
(* same answer (Check#alerting_media, Medium#checks).                          *)
THEOREM RoutesAgree == Spec => []EndsAgree
<1>1. EndsAgree
  BY Agreement
<1> QED BY <1>1, PTL

(* ... and what a medium hears of is in its summaries.                         *)
THEOREM AlertedAreCounted == Spec => []AlertedIsCounted
<1>1. AlertedIsCounted
  BY Counting
<1> QED BY <1>1, PTL

-----------------------------------------------------------------------------

(* Every request leaves each rule with a value for each attribute, has_media   *)
(* included.                                                                   *)
THEOREM TypeCorrect == Spec => []TypeOK
<1>1. Init => TypeOK
  BY DEF Init, TypeOK
<1>2. TypeOK /\ [Next]_vars => TypeOK'
  <2> SUFFICES ASSUME TypeOK, [Next]_vars PROVE TypeOK'
    OBVIOUS
  <2>1. ASSUME NEW i \in Existing PROVE rules[i] \in Rule
    BY DEF Existing, TypeOK
  <2>2. ASSUME NEW s \in RuleSettings, NEW r,
               r.tags \in SUBSET Tags, r.media \in SUBSET Media,
               r.hasMedia \in BOOLEAN
        PROVE  With(s, r) \in Rule
    BY <2>2, RoutingAssumption DEF With, Rule
  <2>3. ASSUME NEW i \in RuleIds, NEW s \in RuleSettings,
               CreateRule(i, s) \/ PatchRule(i, s)
        PROVE  TypeOK'
    <3>1. With(s, NoLinks) \in Rule
      BY <2>2 DEF NoLinks
    <3>2. i \in Existing => With(s, rules[i]) \in Rule
      BY <2>1, <2>2 DEF Rule
    <3> QED BY <2>3, <3>1, <3>2 DEF TypeOK, CreateRule, PatchRule
  <2>4. ASSUME NEW i \in RuleIds, DeleteRule(i) PROVE TypeOK'
    BY <2>4 DEF TypeOK, DeleteRule
  <2>5. ASSUME NEW r \in Rule, NEW M \in SUBSET Media
        PROVE  MediaAdded(r, M) \in Rule /\ MediaRemoved(r, M) \in Rule
    BY DEF MediaAdded, MediaRemoved, Rule
  <2>6. ASSUME NEW i \in RuleIds, NEW M \in SUBSET Media,
               AddMedia(i, M) \/ RemoveMedia(i, M) \/ PatchMedia(i, M)
        PROVE  TypeOK'
    <3>1. i \in Existing /\ rules[i] \in Rule
      BY <2>1, <2>6 DEF AddMedia, RemoveMedia, PatchMedia
    <3>2. rules[i].media \in SUBSET Media
      BY <3>1 DEF Rule
    <3>3. CASE AddMedia(i, M) \/ RemoveMedia(i, M)
      BY <2>5, <3>1, <3>3 DEF TypeOK, AddMedia, RemoveMedia
    <3>4. CASE PatchMedia(i, M)
      <4> DEFINE removed == IF rules[i].media \subseteq M THEN rules[i]
                            ELSE MediaRemoved(rules[i], rules[i].media \ M)
                 result == IF M \subseteq rules[i].media THEN removed
                           ELSE MediaAdded(removed, M \ rules[i].media)
      <4>1. removed \in Rule
        BY <2>5, <3>1, <3>2
      <4>2. result \in Rule
        <5> HIDE DEF removed
        <5> QED BY <2>5, <4>1
      <4>3. rules' = [rules EXCEPT ![i] = result] /\ tagsOf' = tagsOf
        BY <3>4 DEF PatchMedia
      <4> HIDE DEF result
      <4> QED BY <4>2, <4>3 DEF TypeOK
    <3> QED BY <2>6, <3>3, <3>4
  <2>7. ASSUME NEW m \in Media, NEW I \in SUBSET RuleIds,
               AddRules(m, I) \/ RemoveRules(m, I)
        PROVE  TypeOK'
    <3>1. \A i \in I : rules[i] \in Rule
      BY <2>1, <2>7 DEF AddRules, RemoveRules
    <3>2. ASSUME NEW r \in Rule
          PROVE  /\ [r EXCEPT !.media = @ \cup {m}] \in Rule
                 /\ [r EXCEPT !.media = @ \ {m}] \in Rule
      BY DEF Rule
    <3> QED BY <2>7, <3>1, <3>2 DEF TypeOK, AddRules, RemoveRules
  <2>8. ASSUME NEW i \in RuleIds, NEW T \in SUBSET Tags, TagRule(i, T)
        PROVE  TypeOK'
    <3>1. rules[i] \in Rule
      BY <2>1, <2>8 DEF TagRule
    <3>2. [rules[i] EXCEPT !.tags = T] \in Rule
      BY <3>1 DEF Rule
    <3> QED BY <2>8, <3>2 DEF TypeOK, TagRule
  <2>9. ASSUME NEW c \in Checks, NEW T \in SUBSET Tags, TagCheck(c, T)
        PROVE  TypeOK'
    BY <2>9 DEF TypeOK, TagCheck
  <2>10. CASE UNCHANGED vars
    BY <2>10 DEF vars, TypeOK
  <2> QED BY <2>3, <2>4, <2>6, <2>7, <2>8, <2>9, <2>10 DEF Next
<1> QED BY <1>1, <1>2, PTL DEF Spec

=============================================================================
