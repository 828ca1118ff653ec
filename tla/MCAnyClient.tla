----------------------------- MODULE MCAnyClient -----------------------------
(* Right and wrong passwords, right and wrong keys, and a method the server  *)
(* does not know.                                                            *)
EXTENDS AnyClient, TLC

MCPasswords  == "user" :> "password"
MCPublicKeys == "user" :> {"key"}
MCOutput     == "ls" :> 100
MCMaxSent == [service |-> 4, loop |-> 4]
MCAuthRequests ==
    {<<"user", "ssh-connection", "password", "password">>,
     <<"user", "ssh-connection", "password", "key">>,
     <<"user", "ssh-connection", "publickey", "key">>,
     <<"user", "ssh-connection", "publickey", "password">>,
     <<"nobody", "ssh-connection", "password", "password">>,
     <<"user", "ssh-connection", "none", "">>,
     <<"short", "ssh-connection", "password", "password">>}

\* One that sends output, one that only answers, one that is granted to a
\* client that asks for it, and one that is refused.
MCRequests == {<<"exec", "ls">>, <<"subsystem", "sftp">>, <<"subsystem", "other">>}

\* SFTP packets that each fill a CHANNEL_DATA, and typed text.
WholePackets == {<<"sftp">>, <<"text">>}
\* Two in one CHANNEL_DATA, and one in two.
SplitPackets == {<<"sftp">>, <<"sftp", "sftp">>, <<"head">>, <<"tail">>}
=============================================================================
