------------------------------ MODULE ToolNames ------------------------------
(***************************************************************************)
(* internal/aggregate/namespace.go and the server names of                 *)
(* internal/config: names are sequences of characters, because the         *)
(* question is where one name ends and the next begins.                    *)
(***************************************************************************)
EXTENDS Naturals, Sequences

\* The characters of the instances: "a" and "A" stand for the alphanumerics.
AlphaNum == {"a", "A", "b"}
NameChar == AlphaNum \cup {"_", "-"}
ToolChar == NameChar \cup {"."}

Elements(s) == {s[i] : i \in DOMAIN s}

\* validServerNameRe, ^[a-zA-Z0-9][a-zA-Z0-9_-]*$
ValidName(s) == s # <<>> /\ s[1] \in AlphaNum /\ Elements(s) \subseteq NameChar

Lower(s) == [i \in DOMAIN s |-> IF s[i] = "A" THEN "a" ELSE s[i]]

\* The places where d occurs in s; strings.Index is the least of them.
Occurrences(s, d) ==
    {i \in 1 .. Len(s) : /\ i + Len(d) <= Len(s) + 1
                         /\ \A j \in 1 .. Len(d) : s[i + j - 1] = d[j]}

Contains(s, d) == Occurrences(s, d) # {}

PrefixToolName(server, tool, delimiter) == server \o delimiter \o tool

\* The pair <<server, tool>>, as a set that is empty when ok is false.
ParseToolName(name, delimiter) ==
    {<<SubSeq(name, 1, i - 1), SubSeq(name, i + Len(delimiter), Len(name))>> :
        i \in {k \in Occurrences(name, delimiter) :
                  \A l \in Occurrences(name, delimiter) : k <= l}}
=============================================================================
