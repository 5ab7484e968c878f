--------------------------- MODULE MCFrontendUpload ---------------------------
(* FrontendUpload with an SPA at the default route and a route of images    *)
(* that are built elsewhere.                                                *)
EXTENDS FrontendUpload, TLC

TheRouteOf == "page" :> "app" @@ "script" :> "app"
                @@ "image" :> "images" @@ "robots" :> "managed"

Source(p, s, i, m) == "page" :> p @@ "script" :> s @@ "image" :> i @@ "robots" :> m

\* A script is named by its content: it is there or not.
TheSources == { Source(1, 1, 1, 1), Source(2, 0, 2, 0) }
=============================================================================
