------------------------------ MODULE MCBrowser ------------------------------
(* A small instance of Browser: as many logins as leave an old session's     *)
(* timers and sockets beside a new one's.                                    *)
EXTENDS Browser
=============================================================================
