------------------------------- MODULE MCRelay -------------------------------
(* Instances of Relay for TLC.                                             *)
EXTENDS Relay

(* Replies that end with their only ping and hold no other byte 1; a slide *)
(* by 1; the goodbye to a name that is too long; update 512, whose greeting *)
(* and entities follow a first ping.                                       *)
MCReplies ==
    {<<"ping">>, <<"other", "other", "ping">>,
     <<"other", "one", "ping">>, <<"other">>, <<"ping", "other", "ping">>}
=============================================================================
