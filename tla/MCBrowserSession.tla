------------------------- MODULE MCBrowserSession -------------------------
(***************************************************************************)
(* Small instances of BrowserSession.  Two runs are enough for one to      *)
(* overtake the other, and for a session to follow another.                *)
(***************************************************************************)
EXTENDS BrowserSession
=============================================================================
