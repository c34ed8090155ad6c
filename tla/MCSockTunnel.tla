---------------------------- MODULE MCSockTunnel ----------------------------
(***************************************************************************)
(* SockTunnel against proxies that answer CONNECT with an IPv4 address (10 *)
(* bytes) or an IPv6 one (22).                                             *)
(***************************************************************************)
EXTENDS SockTunnel

MCReplyLens == {10, 22}
=============================================================================
