--------------------------- MODULE SemanticConflict ---------------------------
(***************************************************************************)
(* semantic_conflict: which of several claims about one attribute wins,    *)
(* by governed authority and then by freshness.  Claims are a function     *)
(* from places, numbers in the order of the list, to records               *)
(* [source, value, observed_at]; a ranking is a function from the ranked   *)
(* sources to integers.                                                    *)
(***************************************************************************)
EXTENDS Integers, FiniteSetsExt

CONSTANT None   \* the value None of the source

Resolution(state, winning_source, rejected_sources, reason_code) ==
  [state |-> state, winning_source |-> winning_source, rejected_sources |-> rejected_sources,
   reason_code |-> reason_code]

ClaimSources(claims) == {claims[p].source : p \in DOMAIN claims}

ClaimValues(claims) == {claims[p].value : p \in DOMAIN claims}

\* the claims at these places say the same, if they say anything
Agree(claims, places) == \A p, q \in places : claims[p].value = claims[q].value

\* the places of the claims of the highest authority
TopClaims(claims, ranking) ==
  {p \in DOMAIN claims :
     \A q \in DOMAIN claims : ranking[claims[q].source] <= ranking[claims[p].source]}

Freshest(claims, places) ==
  {p \in places : \A q \in places : claims[q].observed_at <= claims[p].observed_at}

\* the winner is the claim at place p
Won(claims, p, rejected, reason_code) ==
  Resolution("CONFLICT", claims[p].source, {claims[q].source : q \in rejected}, reason_code)

\* among claims that differ and whose sources are all ranked
ResolveByAuthority(claims, ranking) ==
  LET top == TopClaims(claims, ranking)
      freshest == Freshest(claims, top)
      OfOthers(p) == {q \in DOMAIN claims : claims[q].source # claims[p].source}
      OfAnother(p) == {q \in DOMAIN claims : claims[q].value # claims[p].value}
  IN  IF top = {Min(top)}
      THEN Won(claims, Min(top), OfOthers(Min(top)), "HIGHEST_AUTHORITY_WINS")
      ELSE IF Agree(claims, top)
      THEN Won(claims, Min(top), OfAnother(Min(top)), "HIGHEST_AUTHORITY_TIER_AGREES")
      ELSE IF freshest = {Min(freshest)}
      THEN Won(claims, Min(freshest), OfOthers(Min(freshest)), "FRESHEST_AMONG_HIGHEST_AUTHORITY")
      ELSE Resolution("REQUIRES_AUTHORITY", None, ClaimSources(claims),
                      "TIED_AUTHORITY_AND_FRESHNESS")

ResolveConflict(claims, ranking) ==
  LET places == DOMAIN claims
  IN  IF places = {} THEN Resolution("UNKNOWN", None, {}, "NO_CLAIMS")
      ELSE IF Agree(claims, places)
      THEN Resolution("CONSISTENT", claims[Min(places)].source, {},
                      IF places = {Min(places)} THEN "SINGLE_SOURCE" ELSE "ALL_SOURCES_AGREE")
      ELSE IF ~(ClaimSources(claims) \subseteq DOMAIN ranking)
      THEN Resolution("REQUIRES_AUTHORITY", None, ClaimSources(claims),
                      "NO_GOVERNED_AUTHORITY_FOR_SOURCE")
      ELSE ResolveByAuthority(claims, ranking)
=============================================================================
