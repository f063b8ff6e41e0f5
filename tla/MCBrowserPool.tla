--------------------------- MODULE MCBrowserPool ---------------------------
(* Two tabs, a channel of one and three calls: a call is refused while the *)
(* channel is full, and the others may hang, fail, be left and be closed.  *)
EXTENDS BrowserPool
=============================================================================
