------------------------------ MODULE MC_Timeline ------------------------------
(***************************************************************************)
(* Model-checking instance of Timeline: three ids, times in two seconds   *)
(* with fractions .0, .5 and .55 (the strings "0Z", "0.5Z", "0.55Z", ...),  *)
(* pages of one item so that every step follows a cursor.                 *)
(***************************************************************************)
EXTENDS Timeline

MCFractions == {<<>>, <<5>>, <<5, 5>>}

\* Under time.Time order two fractions already give every order of two times.
MCFractionsTwo == {<<>>, <<5>>}

Absent == [kind |-> "absent", val |-> ""]
JSONTrue == [kind |-> "bool", val |-> "true"]
JSONString(s) == [kind |-> "string", val |-> s]

\* Id 1 carries no extension, id 2 the JSON boolean true, id 3 the string
\* " Yes" (a supporting observation to ExtensionBool only after trimming
\* and lowercasing).
MCSupportingMixed == (1 :> Absent) @@ (2 :> JSONTrue) @@ (3 :> JSONString(" Yes"))

\* Id 2 carries the string "false", id 3 the string " Yes".
MCSupportingStrings == (1 :> Absent) @@ (2 :> JSONString("false")) @@ (3 :> JSONString(" Yes"))

\* strings.ToLower(strings.TrimSpace(.)) on the strings above.
MCCanon(s) == IF s = " Yes" THEN "yes" ELSE s
=============================================================================
