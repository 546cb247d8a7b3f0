------------------------------- MODULE Sanitizer -------------------------------
(***************************************************************************)
(* federation.sanitizer: a payload is sanitized by declared rules, in the  *)
(* order of their field paths.  A payload is a function from paths to      *)
(* values: <<field>>, or <<parent, child>> when the value of <<parent>> is *)
(* Dict.                                                                   *)
(***************************************************************************)
EXTENDS Integers, Sequences, SequencesExt, Functions, Ordering

CONSTANTS
  FieldPaths,   \* every path, as a sequence in the sort order of the source
  Dict,         \* the value of a path that holds a dictionary
  Redacted      \* REDACTED_PLACEHOLDER

ASSUME PathsAssumption ==
  \A path \in Range(FieldPaths) : path = <<path[1]>> \/ path = <<path[1], path[2]>>

\* a child is there only below a dictionary
Nested(payload) ==
  \A path \in DOMAIN payload : Len(path) = 2 =>
    <<path[1]>> \in DOMAIN payload /\ payload[<<path[1]>>] = Dict

Removes(rule) == rule.operation \in {"REMOVE_FIELD", "DROP_ATTACHMENT"}

Sha256(payload) == [sha256 |-> payload]

Place(path) == CHOOSE i \in DOMAIN FieldPaths : FieldPaths[i] = path

\* sorted(rules, key=field_path): stable, so rules of one path keep their order
SortRules(rules) ==
  LET path(i) == rules[i].field_path
      before == {p \in (DOMAIN rules) \X (DOMAIN rules) :
                   \/ Place(path(p[1])) < Place(path(p[2]))
                   \/ path(p[1]) = path(p[2]) /\ p[1] < p[2]}
      order == Arranged(DOMAIN rules, before)
  IN  [k \in DOMAIN rules |-> rules[order[k]]]

\* the value at a path, and below it
At(payload, path) == Restrict(payload, {p \in DOMAIN payload : IsPrefix(path, p)})

\* del of one key that leaves what was below it
WithoutExact(payload, path) == Restrict(payload, DOMAIN payload \ {path})

Without(payload, path) == Restrict(payload, {p \in DOMAIN payload : ~IsPrefix(path, p)})

NewValue(payload, rule) ==
  CASE rule.operation = "REDACT_FIELD"     -> Redacted
    [] rule.operation = "TOKENIZE_FIELD"   ->
         [token_of |-> rule.field_path, value |-> At(payload, rule.field_path)]
    [] rule.operation = "GENERALIZE_VALUE" -> rule.detail

Transformed(payload, rule) ==
  LET kept == Without(payload, rule.field_path)
  IN  IF Removes(rule) THEN kept
      ELSE [path \in DOMAIN kept \cup {rule.field_path} |->
              IF path = rule.field_path THEN NewValue(payload, rule) ELSE kept[path]]

\* _apply_one that does not look whether the path is there
ApplyOneUnguarded(result, rule) ==
  [payload |-> Transformed(result.payload, rule),
   transformations |-> Append(result.transformations, rule),
   fields_removed |-> IF Removes(rule) THEN result.fields_removed \cup {rule.field_path}
                      ELSE result.fields_removed]

\* a rule whose path is not in the payload changes nothing and is not recorded
ApplyOne(result, rule) ==
  IF rule.field_path \notin DOMAIN result.payload THEN result
  ELSE [payload |-> Transformed(result.payload, rule),
        transformations |-> Append(result.transformations, rule),
        fields_removed |-> IF Removes(rule) THEN result.fields_removed \cup {rule.field_path}
                           ELSE result.fields_removed]

\* the results after each of the rules, from the payload untouched
Results(payload, rules) ==
  LET after[i \in 0..Len(rules)] ==
        IF i = 0 THEN [payload |-> payload, transformations |-> <<>>, fields_removed |-> {}]
        ELSE ApplyOne(after[i - 1], rules[i])
  IN  after

ApplySanitization(payload, rules) == Results(payload, SortRules(rules))[Len(rules)]
=============================================================================
