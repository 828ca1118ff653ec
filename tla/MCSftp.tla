-------------------------------- MODULE MCSftp --------------------------------
(* A root two levels deep in the tree is not needed: "/srv", with the file   *)
(* "/a" beside it.                                                           *)
EXTENDS Sftp, TLC

MCRoot   == <<"/", "srv">>
MCBeside == <<"/", "a">>

\* The root itself, something in it that may be a file or a directory, and the
\* ways out of the root: through its parent, through something that may not
\* exist, and with a second slash.  Then a link, a path through it, and one out
\* of where it leads.
MCRequested == {<<>>, <<"a">>, <<"..", "a">>, <<"a", "..", "..", "a">>, <<"/", "a">>,
                <<"l">>, <<"l", "a">>, <<"l", "..", "a">>}

\* A link in the root to the root itself, and one that leads out of it.
MCLinkable == {<<<<"/", "srv", "l">>, MCRoot>>}
LeadsOut   == {<<<<"/", "srv", "l">>, <<"/">>>>}

\* What is there behind the link, and what is not.
BehindLink == {<<"l">>, <<"l", "a">>, <<"l", "b">>}

ForWriting == {{"WRITE", "CREAT"}, {"WRITE", "CREAT", "TRUNC"}}
ForBoth    == ForWriting \cup {{"READ"}}

\* Nothing depends on the answers given.
WithoutAnswers == <<fs, links, data, handler, job, asked, acked>>

TwoConnections == Permutations(Conns)
=============================================================================
