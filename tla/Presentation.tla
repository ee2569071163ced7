---------------------------- MODULE Presentation ----------------------------
(***************************************************************************)
(* VkSurfaceKHRs and what is behind them.  A surface is made either of the *)
(* application's own wl_surface, found through the Wayland relay (module   *)
(* WaylandProxy), or of a window the server opens for it                   *)
(* (create_own_window, src/server/session.cpp): for Win32 applications, or *)
(* for all with VK_REMOTING_FORCE_OWN_WINDOW.  `own' says which; it does   *)
(* not change while the server runs.  The handlers are those of            *)
(* src/server/handlers_wsi.cpp, the calls those of src/client/wsi.cpp.     *)
(*                                                                         *)
(* Every session's requests are handled one at a time by its thread; the   *)
(* Vulkan connection and the Wayland link are not ordered with each other. *)
(* A swapchain stands for the surface it was made for: which objects exist *)
(* and in which order they go is the matter of module ObjectTables.  The   *)
(* size of a window is left out, its resized flag is not.                  *)
(***************************************************************************)
EXTENDS WaylandProxy

CONSTANTS
  Sessions,      \* client connections
  App,           \* the one of the relay's application
  Handles,       \* what the driver may return for a VkSurfaceKHR
  Windows,       \* addresses of OwnWindows
  MaxSurfaces,   \* a bound on the surfaces a session asks for
  Waits,         \* the application awaits a reply of the server after
                 \* vkDestroySurfaceKHR and before it destroys its wl_surface
  EarlyReuse,    \* the driver returns a handle again as soon as it is destroyed
  NoHandle

ASSUME PresentationAssumption ==
  /\ App \in Sessions /\ NoHandle \notin Handles
  /\ Waits \in BOOLEAN /\ EarlyReuse \in BOOLEAN /\ MaxSurfaces \in Nat

VARIABLES
  own,       \* force_own_window(), or a Win32 application
  calls,     \* per session: how many surfaces it has asked for
  held,      \* per session: its surfaces, id |-> the wl_surface it was made of
  blocked,   \* per session: the call the application waits in
  requests,  \* per session: requests on the Vulkan connection
  handler,   \* per session: the handler in progress
  open,      \* per session: connected
  told       \* per session: what the last acquire answered

VARIABLES
  surfaces,     \* tables.surfaces, per session: slots, never reused
  native,       \* the driver's surfaces: handle |-> wl_surface or window
  own_windows,  \* m_own_windows
  surface_windows,  \* m_surface_windows: handle |-> window
  closed, resized   \* the windows' flags

callVars == <<own, calls, held, blocked, requests, open, told>>
windowVars == <<own_windows, surface_windows, closed, resized>>
vars == <<waylandVars, callVars, handler, surfaces, native, windowVars>>
sessionVars == <<callVars, handler, surfaces, native, windowVars>>

Idle == [at |-> "idle"]
Free == [in |-> "none"]
Without(f, x) == Restrict(f, DOMAIN f \ {x})

Init ==
  /\ WaylandInit
  /\ own \in BOOLEAN
  /\ calls = [s \in Sessions |-> 0] /\ held = [s \in Sessions |-> <<>>]
  /\ blocked = [s \in Sessions |-> Free] /\ requests = [s \in Sessions |-> <<>>]
  /\ handler = [s \in Sessions |-> Idle] /\ open = [s \in Sessions |-> TRUE]
  /\ told = [s \in Sessions |-> "nothing"]
  /\ surfaces = [s \in Sessions |-> <<>>] /\ native = <<>>
  /\ own_windows = {} /\ surface_windows = <<>> /\ closed = {} /\ resized = {}

-----------------------------------------------------------------------------
(* The application. *)

Ready(s) == open[s] /\ blocked[s] = Free
Send(s, r) == requests' = [requests EXCEPT ![s] = Append(@, r)]

\* The application's use of Wayland: a surface is destroyed once no VkSurfaceKHR
\* is made of it.
Wayland ==
  /\ ~own
  /\ \/ RelayNext
     \/ \E o \in DOMAIN app, r \in Requests :
          /\ Ready(App)
          /\ r.iface = "wl_surface" =>
               /\ o \notin Range(held[App])
               /\ Waits => requests[App] = <<>> /\ handler[App] = Idle
          /\ AppRequest(o, r)
  /\ UNCHANGED sessionVars

\* CreateWaylandSurfaceKHR: a roundtrip through the relay comes first.
CreateWaylandSurfaceKHR(o) ==
  /\ ~own /\ Ready(App) /\ running /\ calls[App] < MaxSurfaces
  /\ o \in DOMAIN app /\ app[o] = "wl_surface" /\ o \notin Range(held[App])
  /\ AppRequest(1, Request("wl_display", "sync", "wl_callback", FALSE))
  /\ calls' = [calls EXCEPT ![App] = @ + 1]
  /\ blocked' = [blocked EXCEPT ![App] =
                   [in |-> "roundtrip", surface |-> o, callback |-> nextId]]
  /\ UNCHANGED <<own, held, requests, handler, open, told, surfaces, native, windowVars>>

\* The roundtrip returns, or fails with the relay, which is not looked at.
RoundtripReturns ==
  LET b == blocked[App]
      synced == b.callback \in seen IN
  /\ b.in = "roundtrip" /\ (synced \/ ~running)
  /\ Send(App, [op |-> "create", surface |-> b.surface, synced |-> synced])
  /\ blocked' = [blocked EXCEPT ![App] =
                   [in |-> "create", surface |-> b.surface, synced |-> synced]]
  /\ UNCHANGED <<waylandVars, own, calls, held, handler, open, told, surfaces, native,
                 windowVars>>

\* CreateWin32SurfaceKHR, or CreateWaylandSurfaceKHR where the server opens a
\* window for it (its roundtrip does not matter then).
CreateOwnSurface(s) ==
  /\ own /\ Ready(s) /\ calls[s] < MaxSurfaces
  /\ calls' = [calls EXCEPT ![s] = @ + 1]
  /\ blocked' = [blocked EXCEPT ![s] = [in |-> "create", surface |-> 0, synced |-> TRUE]]
  /\ Send(s, [op |-> "create", surface |-> 0, synced |-> TRUE])
  /\ UNCHANGED <<waylandVars, own, held, handler, open, told, surfaces, native, windowVars>>

\* DestroySurfaceKHR does not wait for anything.
DestroySurfaceKHR(s, id) ==
  /\ Ready(s) /\ id \in DOMAIN held[s]
  /\ held' = [held EXCEPT ![s] = Without(@, id)]
  /\ Send(s, [op |-> "destroy", id |-> id])
  /\ UNCHANGED <<waylandVars, own, calls, blocked, handler, open, told, surfaces, native,
                 windowVars>>

AcquireNextImageKHR(s, id) ==
  /\ Ready(s) /\ id \in DOMAIN held[s]
  /\ blocked' = [blocked EXCEPT ![s] = [in |-> "acquire"]]
  /\ Send(s, [op |-> "acquire", id |-> id])
  /\ UNCHANGED <<waylandVars, own, calls, held, handler, open, told, surfaces, native,
                 windowVars>>

-----------------------------------------------------------------------------
(* The server's handlers; a step ends where a lock is released or the driver *)
(* returns.                                                                  *)

SurfaceOf(s, id) == IF id \in DOMAIN surfaces[s] THEN surfaces[s][id] ELSE NoHandle
Begin(s, op) == handler[s] = Idle /\ open[s] /\ requests[s] # <<>> /\ Head(requests[s]).op = op
Took(s) == requests' = [requests EXCEPT ![s] = Tail(@)]
To(s, h) == handler' = [handler EXCEPT ![s] = h]

\* The reply to a create: the surface's id, or none.
ReplyCreate(s, made) ==
  LET id == Len(surfaces'[s]) IN
  /\ held' = IF made THEN [held EXCEPT ![s] = Put(@, id, blocked[s].surface)] ELSE held
  /\ blocked' = [blocked EXCEPT ![s] = Free]
  /\ To(s, Idle)

\* create_own_window: a window, unless the compositor is not there.
create_own_window(s) ==
  /\ own /\ Begin(s, "create") /\ Took(s)
  /\ \/ \E w \in Windows \ own_windows :
          /\ own_windows' = own_windows \cup {w}
          /\ closed' = closed \ {w} /\ resized' = resized \ {w}
          /\ To(s, [at |-> "made", target |-> w])
          /\ UNCHANGED <<held, blocked, surfaces>>
     \/ /\ UNCHANGED <<own_windows, closed, resized, surfaces>>
        /\ ReplyCreate(s, FALSE)
  /\ UNCHANGED <<waylandVars, own, calls, open, told, native, surface_windows>>

\* handle_CreateWaylandSurfaceKHR looks the wl_surface up, under objects_mutex_.
FindSurface(s) ==
  LET r == Head(requests[s]) IN
  /\ ~own /\ Begin(s, "create") /\ Took(s)
  /\ To(s, [at |-> "found", target |-> surface_for_client_id(r.surface), synced |-> r.synced])
  /\ UNCHANGED <<waylandVars, own, calls, held, blocked, open, told, surfaces, native,
                 windowVars>>

\* Handles the driver may return: of no live surface, and, unless it is quick
\* to use them again, of none the server is still releasing.
Fresh ==
  {h \in Handles \ DOMAIN native :
     EarlyReuse \/ (h \notin DOMAIN surface_windows
                    /\ \A s \in Sessions : handler[s].at = "release" => handler[s].surface # h)}

Register(s, h) == surfaces' = [surfaces EXCEPT ![s] = Append(@, h)]

\* vkCreateWaylandSurfaceKHR on the application's wl_surface.
CreateProxied(s) ==
  LET target == handler[s].target IN
  /\ handler[s].at = "found"
  /\ \/ \E h \in Fresh :
          /\ target # 0
          /\ native' = Put(native, h, target)
          /\ Register(s, h)
          /\ ReplyCreate(s, TRUE)
     \/ /\ UNCHANGED <<native, surfaces>>
        /\ ReplyCreate(s, FALSE)
  /\ UNCHANGED <<waylandVars, own, calls, requests, open, told, windowVars>>

\* vkCreate...SurfaceKHR on the server's window.
CreateOnWindow(s) ==
  LET w == handler[s].target IN
  /\ handler[s].at = "made"
  /\ \/ \E h \in Fresh :
          /\ native' = Put(native, h, w)
          /\ To(s, [at |-> "associate", target |-> w, surface |-> h])
     \/ To(s, [at |-> "discard", target |-> w]) /\ UNCHANGED native
  /\ UNCHANGED <<waylandVars, callVars, surfaces, windowVars>>

associate_surface(s) ==
  /\ handler[s].at = "associate"
  /\ surface_windows' = Put(surface_windows, handler[s].surface, handler[s].target)
  /\ Register(s, handler[s].surface)
  /\ ReplyCreate(s, TRUE)
  /\ UNCHANGED <<waylandVars, own, calls, requests, open, told, native, own_windows, closed,
                 resized>>

\* As if a window without a surface were left to the server's end.
discard_nothing(s) ==
  /\ handler[s].at = "discard"
  /\ UNCHANGED <<own_windows, surfaces>>
  /\ ReplyCreate(s, FALSE)
  /\ UNCHANGED <<waylandVars, own, calls, requests, open, told, native, surface_windows,
                 closed, resized>>
discard_own_window(s) ==
  /\ handler[s].at = "discard"
  /\ own_windows' = own_windows \ {handler[s].target}
  /\ UNCHANGED surfaces
  /\ ReplyCreate(s, FALSE)
  /\ UNCHANGED <<waylandVars, own, calls, requests, open, told, native, surface_windows,
                 closed, resized>>

\* vkDestroySurfaceKHR, by handle_DestroySurfaceKHR ...
handle_DestroySurfaceKHR(s) ==
  LET id == Head(requests[s]).id
      h == SurfaceOf(s, id) IN
  /\ Begin(s, "destroy") /\ Took(s)
  /\ surfaces' = [surfaces EXCEPT ![s][id] = NoHandle]
  /\ native' = Without(native, h)
  /\ To(s, [at |-> "release", surface |-> h])
  /\ UNCHANGED <<waylandVars, own, calls, held, blocked, open, told, windowVars>>

\* ... or by destroy_session_objects, one surface after the other.
destroy_session_objects(s) ==
  LET left == {i \in DOMAIN surfaces[s] : surfaces[s][i] # NoHandle}
      id == CHOOSE i \in left : \A j \in left : i <= j
      h == surfaces[s][id] IN
  /\ ~open[s] /\ handler[s] = Idle /\ left # {}
  /\ surfaces' = [surfaces EXCEPT ![s][id] = NoHandle]
  /\ native' = Without(native, h)
  /\ To(s, [at |-> "release", surface |-> h])
  /\ UNCHANGED <<waylandVars, callVars, windowVars>>

\* The window that goes with the surface, if any, under m_own_windows_mutex.
release_surface_window(s) ==
  LET h == handler[s].surface IN
  /\ handler[s].at = "release"
  /\ IF h \in DOMAIN surface_windows
     THEN /\ own_windows' = own_windows \ {surface_windows[h]}
          /\ surface_windows' = Without(surface_windows, h)
     ELSE UNCHANGED <<own_windows, surface_windows>>
  /\ To(s, Idle)
  /\ UNCHANGED <<waylandVars, callVars, surfaces, native, closed, resized>>

\* As if any closed window would do.
any_window_closed(h) == own_windows \cap closed # {}
poll_window_closed(h) == h \in DOMAIN surface_windows /\ surface_windows[h] \in closed
poll_window_resized(h) ==
  resized' = IF h \in DOMAIN surface_windows THEN resized \ {surface_windows[h]} ELSE resized

\* A closed window is reported; a resize is taken note of and forgotten.
handle_AcquireNextImageKHR(s) ==
  LET h == SurfaceOf(s, Head(requests[s]).id) IN
  /\ Begin(s, "acquire") /\ Took(s)
  /\ IF poll_window_closed(h)
     THEN told' = [told EXCEPT ![s] = "VK_ERROR_SURFACE_LOST_KHR"] /\ UNCHANGED resized
     ELSE told' = [told EXCEPT ![s] = "VK_SUCCESS"] /\ poll_window_resized(h)
  /\ blocked' = [blocked EXCEPT ![s] = Free]
  /\ UNCHANGED <<waylandVars, own, calls, held, handler, open, surfaces, native, own_windows,
                 surface_windows, closed>>

\* The connection ends: what is in it and was not handled is lost.  The other
\* sessions have no part where surfaces are the relay's.
Disconnect(s) ==
  /\ open[s] /\ handler[s] = Idle /\ (own \/ s = App)
  /\ open' = [open EXCEPT ![s] = FALSE]
  /\ requests' = [requests EXCEPT ![s] = <<>>]
  /\ held' = [held EXCEPT ![s] = <<>>]
  /\ blocked' = [blocked EXCEPT ![s] = Free]
  /\ UNCHANGED <<waylandVars, own, calls, handler, told, surfaces, native, windowVars>>

\* The window's pump thread: the user closes it, or the compositor resizes it.
toplevel_close(w) ==
  /\ w \in own_windows \ closed
  /\ closed' = closed \cup {w}
  /\ UNCHANGED <<waylandVars, callVars, handler, surfaces, native, own_windows,
                 surface_windows, resized>>
toplevel_configure(w) ==
  /\ w \in own_windows \ resized
  /\ resized' = resized \cup {w}
  /\ UNCHANGED <<waylandVars, callVars, handler, surfaces, native, own_windows,
                 surface_windows, closed>>

Next ==
  \/ Wayland
  \/ \E o \in DOMAIN app : CreateWaylandSurfaceKHR(o)
  \/ RoundtripReturns
  \/ \E s \in Sessions :
       \/ CreateOwnSurface(s)
       \/ \E id \in DOMAIN held[s] : DestroySurfaceKHR(s, id) \/ AcquireNextImageKHR(s, id)
       \/ create_own_window(s) \/ FindSurface(s) \/ CreateProxied(s) \/ CreateOnWindow(s)
       \/ associate_surface(s) \/ discard_own_window(s)
       \/ handle_DestroySurfaceKHR(s) \/ destroy_session_objects(s)
       \/ release_surface_window(s) \/ handle_AcquireNextImageKHR(s)
       \/ Disconnect(s)
  \/ \E w \in Windows : toplevel_close(w) \/ toplevel_configure(w)

Spec == Init /\ [][Next]_vars

-----------------------------------------------------------------------------
\* The variables have their types, and the tables name only surfaces the driver
\* has.
TypeOK ==
  /\ WaylandTypeOK
  /\ \A s \in Sessions :
       /\ calls[s] \in 0..MaxSurfaces /\ Len(surfaces[s]) <= calls[s]
       /\ Range(surfaces[s]) \subseteq DOMAIN native \cup {NoHandle}
       /\ blocked[s].in \in {"none", "roundtrip", "create", "acquire"}
       /\ told[s] \in {"nothing", "VK_SUCCESS", "VK_ERROR_SURFACE_LOST_KHR"}
  /\ DOMAIN native \subseteq Handles
  /\ own_windows \subseteq Windows

\* What a live VkSurfaceKHR is made of is there: the application's wl_surface on
\* the server's connection, or the server's window, whatever the application, the
\* relay and the other sessions do meanwhile.  So is what a handler that is about
\* to make a surface has looked up and holds without a lock.
NativeAlive ==
  LET alive == IF own THEN own_windows ELSE proxies IN
  /\ \A h \in DOMAIN native : native[h] \in alive
  /\ \A s \in Sessions :
       handler[s].at = "found" => handler[s].target \in alive \cup {0}

\* "failed creates and normal vkDestroySurfaceKHR calls do not leave compositor
\* objects behind" (src/server/session.hpp:89-91): every window is that of a live
\* surface, or in the hands of a handler.
NoWindowLeftBehind ==
  \A w \in own_windows :
    \/ w \in Range(native)
    \/ \E s \in Sessions : handler[s].at \in {"made", "associate", "discard"}
                           /\ handler[s].target = w
    \/ \E s \in Sessions : handler[s].at = "release"
                           /\ handler[s].surface \in DOMAIN surface_windows
                           /\ surface_windows[handler[s].surface] = w

\* The roundtrip in CreateWaylandSurfaceKHR is enough: once it has returned, the
\* server finds the application's surface, although the two connections are not
\* ordered with each other.
FoundAfterRoundtrip ==
  \A s \in Sessions :
    handler[s].at = "found" /\ handler[s].synced => handler[s].target # 0

\* "A resize or close on one client's window must never affect another client's
\* swapchain" (src/server/session.hpp:97-99): a session is told that its surface
\* is lost only if the window behind one of its surfaces was closed.
CloseIsOwn ==
  [][\A s \in Sessions :
       told'[s] = "VK_ERROR_SURFACE_LOST_KHR" /\ told'[s] # told[s] =>
         \E h \in Range(surfaces[s]) : h \in DOMAIN native /\ native[h] \in closed]_vars

\* What src/server/own_window.hpp:201-203 says of a resize: the acquire that takes
\* note of it answers VK_SUBOPTIMAL_KHR.
ResizeIsReported ==
  [][\A s \in Sessions :
       handle_AcquireNextImageKHR(s) /\ resized' # resized =>
         told'[s] = "VK_SUBOPTIMAL_KHR"]_vars

\* The two ends of the relay agree with each other and, after the roundtrip, with the
\* session that asks for a surface.
RelayAgrees == TypeOK /\ TablesAgree /\ FoundAfterRoundtrip
=============================================================================
