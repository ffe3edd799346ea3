-------------------------- MODULE MCBrowserSession --------------------------
(* Instances of BrowserSession for TLC.                                    *)
EXTENDS BrowserSession

OnePane == {"p1"}

=============================================================================
