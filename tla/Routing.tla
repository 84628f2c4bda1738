------------------------------- MODULE Routing -------------------------------
(***************************************************************************)
(* The rules, and how the JSON API changes them and their links to media    *)
(* and tags.  Every request runs under the lock of the classes it touches,  *)
(* so it is one action.                                                     *)
(*                                                                          *)
(* A link can be made and removed from either end.  The rule's end tells    *)
(* the rule (media_added, media_removed), which keeps in has_media whether  *)
(* it has any; an association runs only the callbacks of its own end (the   *)
(* record store's behaviour, taken from how rule.rb and medium.rb declare   *)
(* theirs), so the medium's end does not.                                   *)
(***************************************************************************)
EXTENDS Rules

CONSTANTS
  RuleIds,
  RuleSettings  \* the attributes a rule may be given

ASSUME RoutingAssumption ==
  RuleSettings \subseteq
    [enabled    : BOOLEAN,
     blackhole  : BOOLEAN,
     strategy   : Strategies,
     conditions : (SUBSET Condition) \cup {Nil},
     hours      : SUBSET Hours]

VARIABLES
  rules,   \* the rule with each id, or Nil
  tagsOf   \* the tags of each check

vars == <<rules, tagsOf>>

Existing == {i \in RuleIds : rules[i] # Nil}
RuleSet == {rules[i] : i \in Existing}

-----------------------------------------------------------------------------

\* Attributes from a request, links and has_media from the rule as it is.
With(s, r) ==
  [enabled |-> s.enabled, blackhole |-> s.blackhole, strategy |-> s.strategy,
   conditions |-> s.conditions, hours |-> s.hours,
   tags |-> r.tags, media |-> r.media, hasMedia |-> r.hasMedia]

\* Faulty: has_media is not initialized.
Unmarked == [tags |-> {}, media |-> {}, hasMedia |-> Nil]

NoLinks == [tags |-> {}, media |-> {}, hasMedia |-> FALSE]

\* POST /rules: initialize clears has_media.
CreateRule(i, s) ==
  /\ rules[i] = Nil
  /\ rules' = [rules EXCEPT ![i] = With(s, NoLinks)]
  /\ UNCHANGED tagsOf

\* PATCH /rules/i
PatchRule(i, s) ==
  /\ i \in Existing
  /\ rules' = [rules EXCEPT ![i] = With(s, @)]
  /\ UNCHANGED tagsOf

\* DELETE /rules/i
DeleteRule(i) ==
  /\ i \in Existing
  /\ rules' = [rules EXCEPT ![i] = Nil]
  /\ UNCHANGED tagsOf

-----------------------------------------------------------------------------
(* Links to media, from the rule's end *)

\* media_added
MediaAdded(r, M) == [r EXCEPT !.media = @ \cup M, !.hasMedia = TRUE]

\* media_removed: has_media becomes whether the rule is left WITHOUT media.
MediaRemoved(r, M) ==
  [r EXCEPT !.media = @ \ M, !.hasMedia = (r.media \ M = {})]

\* POST /rules/i/relationships/media
AddMedia(i, M) ==
  /\ i \in Existing
  /\ rules' = [rules EXCEPT ![i] = MediaAdded(@, M)]
  /\ UNCHANGED tagsOf

\* DELETE /rules/i/relationships/media; the media need not be linked.
RemoveMedia(i, M) ==
  /\ i \in Existing
  /\ rules' = [rules EXCEPT ![i] = MediaRemoved(@, M)]
  /\ UNCHANGED tagsOf

\* PATCH /rules/i/relationships/media: removes, then adds, what differs.
PatchMedia(i, M) ==
  LET r       == rules[i]
      removed == IF r.media \subseteq M THEN r
                 ELSE MediaRemoved(r, r.media \ M)
  IN  /\ i \in Existing
      /\ rules' = [rules EXCEPT ![i] =
                     IF M \subseteq r.media THEN removed
                     ELSE MediaAdded(removed, M \ r.media)]
      /\ UNCHANGED tagsOf

(* ... and from the medium's end *)

\* POST /media/m/relationships/rules
AddRules(m, I) ==
  /\ I \subseteq Existing
  /\ rules' = [i \in RuleIds |->
                 IF i \in I THEN [rules[i] EXCEPT !.media = @ \cup {m}]
                 ELSE rules[i]]
  /\ UNCHANGED tagsOf

\* DELETE /media/m/relationships/rules; deleting the medium does the same to
\* all of its rules.
RemoveRules(m, I) ==
  /\ I \subseteq Existing
  /\ rules' = [i \in RuleIds |->
                 IF i \in I THEN [rules[i] EXCEPT !.media = @ \ {m}]
                 ELSE rules[i]]
  /\ UNCHANGED tagsOf

-----------------------------------------------------------------------------
(* Tags *)

\* POST, PATCH and DELETE /rules/i/relationships/tags
TagRule(i, T) ==
  /\ i \in Existing
  /\ rules' = [rules EXCEPT ![i].tags = T]
  /\ UNCHANGED tagsOf

\* The same for a check.
TagCheck(c, T) ==
  /\ tagsOf' = [tagsOf EXCEPT ![c] = T]
  /\ UNCHANGED rules

-----------------------------------------------------------------------------

Init ==
  /\ rules = [i \in RuleIds |-> Nil]
  /\ tagsOf \in [Checks -> SUBSET Tags]

Next ==
  \/ \E i \in RuleIds :
       \/ \E s \in RuleSettings : CreateRule(i, s) \/ PatchRule(i, s)
       \/ DeleteRule(i)
       \/ \E M \in SUBSET Media \ {{}} : AddMedia(i, M) \/ RemoveMedia(i, M)
       \/ \E M \in SUBSET Media : PatchMedia(i, M)
       \/ \E T \in SUBSET Tags : TagRule(i, T)
  \/ \E m \in Media, I \in SUBSET RuleIds \ {{}} :
       AddRules(m, I) \/ RemoveRules(m, I)
  \/ \E c \in Checks, T \in SUBSET Tags : TagCheck(c, T)

Spec == Init /\ [][Next]_vars

-----------------------------------------------------------------------------
(* Properties *)

TypeOK ==
  /\ rules \in [RuleIds -> Rule \cup {Nil}]
  /\ tagsOf \in [Checks -> SUBSET Tags]

\* The two ends of the routing agree (Check#alerting_media, Medium#checks):
\* whatever the requests, as long as has_media is right, no rule that goes by
\* tags is without them, and no rule lists conditions (the medium's end does
\* not look at those), a medium hears of exactly the checks it counts.
EndsAgree ==
  (\A r \in RuleSet : r.enabled => Settled(r) /\ r.conditions = Nil) =>
    \A c \in Checks, m \in Media, severity \in Condition, hour \in Hours :
      m \in AlertingMedia(RuleSet, tagsOf[c], severity, hour)
        <=> c \in ChecksOf(RuleSet, tagsOf, m, hour)

\* With acceptors that list conditions, and whatever has_media says of them,
\* a check that a medium hears of still counts towards the medium's summaries.
AlertedIsCounted ==
  (\A r \in RuleSet :
     /\ r.strategy = "global" \/ r.tags # {}
     /\ r.blackhole => Settled(r) /\ r.conditions = Nil) =>
    \A c \in Checks, m \in Media, severity \in Condition, hour \in Hours :
      m \in AlertingMedia(RuleSet, tagsOf[c], severity, hour)
        => c \in ChecksOf(RuleSet, tagsOf, m, hour)

\* "if a rule has no media, it's irrelevant here" (matching_media_ids): a rule
\* is left out for having no media only, so one that keeps some when others
\* are removed stays marked as having media.
KeepsItsMedia ==
  [][\A i \in RuleIds, M \in SUBSET Media :
       RemoveMedia(i, M) /\ rules'[i].media # {} => rules'[i].hasMedia]_vars

=============================================================================
