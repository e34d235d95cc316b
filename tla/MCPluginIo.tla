----------------------------- MODULE MCPluginIo -----------------------------
(***************************************************************************)
(* Model checking of what plugins do: PluginState, TcpClient, HttpServer    *)
(* and CurlMulti.  They share no state but the life of the plugin, so a     *)
(* behaviour is one of one of them.                                         *)
(***************************************************************************)
EXTENDS PluginState, TcpClient, HttpServer, CurlMulti

VARIABLE part

ioVars == <<part, pluginVars, tcpVars, httpVars, curlVars>>

IoInit ==
    /\ part \in {"plugin", "tcp", "http", "curl"}
    /\ PluginInit /\ TcpInit /\ HttpInit /\ CurlInit

IoNext ==
    /\ UNCHANGED part
    /\ \/ part = "plugin" /\ UNCHANGED <<tcpVars, httpVars, curlVars>> /\ PluginNext
       \/ part = "tcp" /\ UNCHANGED <<pluginVars, httpVars, curlVars>> /\ TcpNext
       \/ part = "http" /\ UNCHANGED <<pluginVars, tcpVars, curlVars>> /\ HttpNext
       \/ part = "curl" /\ UNCHANGED <<pluginVars, tcpVars, httpVars>> /\ CurlNext

IoSpec == IoInit /\ [][IoNext]_ioVars

\* The writes are interchangeable.
Interchangeable == Permutations(Writes)
=============================================================================
