----------------------------- MODULE MCDeletions -----------------------------
(* Deletions over the whole schema, on databases of two or three rows.     *)
EXTENDS Deletions, FiniteSets

M == INSTANCE Models
G == INSTANCE Migrations

MCModel == M!ForeignKeys
MCDatabase == G!Migrated
MCHistory == G!HistoryTables
MCListened == M!WithReceiver

ASSUME M!Tracked = Tracked

Keys == UNION {{<<t, f>> : f \in Columns(t)} : t \in Tables}
To(k) == Database[k[1]][k[2]].to

Plain(t) == [table |-> t, ref |-> Blank(t)]
Refer(x, f, p) == [x EXCEPT !.ref[f] = p]

\* A row and a row that refers to it ...
Two == {<<Plain(To(k)), Refer(Plain(k[1]), k[2], 1)>> : k \in Keys}

\* ... by one key or two, and a third row that refers to the first, to the
\* second or to both, or that the second refers to.
More(x) ==
    LET first == {k \in Keys : To(k) = x[1].table}
        second == {k \in Keys : To(k) = x[2].table}
        free == {f \in Columns(x[2].table) : x[2].ref[f] # 1} IN
    {<<x[1], x[2], Unborn>>}
    \cup {<<x[1], Refer(x[2], f, 1), Unborn>> :
            f \in {g \in free : To(<<x[2].table, g>>) = x[1].table}}
    \cup {<<x[1], x[2], Refer(Plain(k[1]), k[2], 1)>> : k \in first}
    \cup {<<x[1], x[2], Refer(Plain(k[1]), k[2], 2)>> : k \in second}
    \cup {<<x[1], x[2], Refer(Refer(Plain(k[1]), k[2], 1), l[2], 2)>> :
            <<k, l>> \in {e \in first \X second : e[1][1] = e[2][1] /\ e[1] # e[2]}}
    \cup {<<x[1], Refer(x[2], f, 3), Plain(To(<<x[2].table, f>>))>> : f \in free}

\* A row of a class with a history, a user, and a row that refers to the user.
Staffed ==
    {<<Plain(t), Plain("User"), Refer(Plain(k[1]), k[2], 2)>> :
        t \in Tracked, k \in {l \in Keys : To(l) = "User"}}
    \cup {<<Plain(t), Plain("User"), Unborn>> : t \in Tracked}

MCStart == Staffed \cup UNION {More(x) : x \in Two}
=============================================================================
