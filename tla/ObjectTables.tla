---------------------------- MODULE ObjectTables ----------------------------
(***************************************************************************)
(* The object tables of one session (src/server/objects.hpp) and the       *)
(* handlers that create, name, use and destroy Vulkan objects through      *)
(* them (src/server/handlers_*.cpp), down to the teardown of a device and  *)
(* of the whole session (src/server/session.cpp).                          *)
(*                                                                         *)
(* The client knows an object by its id, a 1-based index into the table    *)
(* of its kind; ids are never reused.  The driver knows it by a native     *)
(* handle, which it may give to a new object as soon as the old one is     *)
(* gone.  The id therefore identifies the object for ever, and the driver  *)
(* side below records, for each live native object, the id the client was  *)
(* told.  The application follows the rules of Vulkan about which device,  *)
(* pool or swapchain an object belongs to, but may use a name after it     *)
(* has destroyed the object.                                               *)
(***************************************************************************)
EXTENDS Naturals, Sequences, FiniteSets, SequencesExt

CONSTANTS Exercised,   \* the kinds of table the application uses
          Handles,     \* the values of the driver's native handles, per kind
          MaxObjects   \* bound on the names given out in the session

ASSUME HandlesAssumption == Handles \subseteq Nat \ {0} /\ IsFiniteSet(Handles)
ASSUME BoundAssumption == MaxObjects \in Nat

Null == 0

\* As if swapchain images were retired after the images are destroyed.
TeardownOrderBorrowedLast ==
  <<"framebuffers", "pipelines", "descriptor_pools", "descriptor_update_templates",
    "image_views", "buffer_views", "samplers", "shader_modules", "pipeline_layouts",
    "descriptor_set_layouts", "render_passes", "pipeline_caches", "query_pools", "events",
    "fences", "semaphores", "sampler_ycbcr_conversions", "command_pools", "buffers",
    "images", "borrowed", "swapchains", "memories">>

\* destroy_device_objects: the DESTROY_OWNED lines in their order.  "borrowed"
\* stands for the loop that retires the names of swapchain images.
TeardownOrder ==
  <<"framebuffers", "pipelines", "descriptor_pools", "descriptor_update_templates",
    "image_views", "buffer_views", "samplers", "shader_modules", "pipeline_layouts",
    "descriptor_set_layouts", "render_passes", "pipeline_caches", "query_pools", "events",
    "fences", "semaphores", "sampler_ycbcr_conversions", "command_pools", "buffers",
    "borrowed", "images", "swapchains", "memories">>

\* Kinds created by SERVER_CREATE and destroyed by SERVER_DESTROY.
PlainKinds ==
  {"buffers", "images", "image_views", "buffer_views", "events", "query_pools", "samplers",
   "shader_modules", "pipeline_caches", "pipeline_layouts", "render_passes", "framebuffers",
   "descriptor_set_layouts", "command_pools"}

\* Kinds whose owner is kept a second time in a map keyed by the id.
RegisteredKinds == {"descriptor_update_templates", "sampler_ycbcr_conversions", "memories"}

Kinds ==
  PlainKinds \cup RegisteredKinds
    \cup {"devices", "queues", "command_buffers", "pipelines", "descriptor_pools",
          "descriptor_sets", "fences", "semaphores", "surfaces", "swapchains"}

\* What an object of each kind goes on referring to while it lives (Vulkan's
\* rules, as far as the tables hold both ends).
Refers(k) ==
  CASE k = "framebuffers" -> {"image_views", "render_passes"}
    [] k = "image_views"  -> {"images"}
    [] k = "buffer_views" -> {"buffers"}
    [] k = "pipelines"    -> {"pipeline_layouts"}
    [] k = "pipeline_layouts" -> {"descriptor_set_layouts"}
    [] k = "descriptor_update_templates" -> {"descriptor_set_layouts"}
    [] k = "samplers"     -> {"sampler_ycbcr_conversions"}
    [] k = "swapchains"   -> {"surfaces"}
    [] OTHER -> {}

VARIABLES
  tables,      \* Table<T>: per kind, the slots [h |-> native handle, owner |-> VkDevice]
  registered,  \* memory_metadata and two *_owners maps: per kind, id -> [owner, h]
  descriptor_set_owners,   \* id -> [device, pool], both native
  command_buffer_devices,  \* native command buffer -> native device
  swapchain_devices,       \* native swapchain -> native device
  swapchain_surfaces,      \* native swapchain -> native surface
  swapchain_image_ids,     \* swapchain id -> ids of its images
  doing                    \* serving, ending or ended, and the device being torn down

\* The driver, and what the properties look at.
VARIABLES
  live,     \* the native objects that exist
  called,   \* the objects named by the last call into the driver
  orphaned, \* the command buffers whose pool the application destroyed
  faults    \* what the driver was made to do wrong in a teardown

maps == <<registered, descriptor_set_owners, command_buffer_devices, swapchain_devices,
          swapchain_surfaces, swapchain_image_ids>>
vars == <<tables, maps, doing, live, called, orphaned, faults>>
watched == <<orphaned, faults>>

Serving == doing.at = "serving" /\ doing.h = Null
EmptyMap == [x \in {} |-> Null]
Put(f, x, v) == [y \in DOMAIN f \cup {x} |-> IF y = x THEN v ELSE f[y]]
Erase(f, gone) == [y \in DOMAIN f \ gone |-> f[y]]

------------------------------------------------------------------------------
(* Table<T>. *)

Ids(t, k) == 1 .. Len(t[k])
AllIds(k) == Ids(tables, k)
Get(t, k, id) == IF id \in Ids(t, k) THEN t[k][id].h ELSE Null
Owner(t, k, id) == IF id \in Ids(t, k) THEN t[k][id].owner ELSE Null
OwnedBy(t, k, id, device) == Get(t, k, id) # Null /\ Owner(t, k, id) = device

Add(t, k, h, owner) == [t EXCEPT ![k] = Append(@, [h |-> h, owner |-> owner])]

\* take(), of each id of a set.
Take(t, k, ids) ==
  [t EXCEPT ![k] = [i \in DOMAIN @ |-> IF i \in ids THEN [h |-> Null, owner |-> Null] ELSE @[i]]]

RetireOwned(t, k, device) ==
  Take(t, k, {i \in Ids(t, k) : t[k][i].owner = device})

------------------------------------------------------------------------------
(* The driver. *)

Objects(k) == {o \in live : o.kind = k}
FreeHandles(k) == Handles \ {o.h : o \in Objects(k)}

\* A new object gets the lowest free handle: the driver reuses a handle as soon
\* as it can.  A driver that waits longer only makes stale names meet less.
HasHandle(k) == FreeHandles(k) # {}
NewHandle(k) == Min(FreeHandles(k))

\* The n lowest free handles, in order, for n new objects at once.
NewHandles(k, n) ==
  {f \in [1 .. n -> FreeHandles(k)] :
     /\ \A i, j \in 1 .. n : i < j => f[i] < f[j]
     /\ \A h \in FreeHandles(k), i \in 1 .. n : h < f[i] => \E j \in 1 .. n : f[j] = h}

Object(k, id, h, d, parent, refs) ==
  [kind |-> k, id |-> id, h |-> h, dev |-> d, parent |-> parent, refs |-> refs]

\* A pool takes what was allocated from it along, a swapchain its images.
WithChildren(gone) ==
  gone \cup {o \in live : \E g \in gone : o.parent = <<g.kind, g.id>>}

\* vkDestroy*, of a set of native handles of one kind.
NativeDestroy(k, hs) == WithChildren({o \in Objects(k) : o.h \in hs})

Room == SumFunction([k \in Kinds |-> Len(tables[k])]) < MaxObjects
NewId(k) == Len(tables[k]) + 1
LiveDevices == {d \in AllIds("devices") : Get(tables, "devices", d) # Null}
Native(d) == Get(tables, "devices", d)

\* The names of device d's objects of kind k that the application still holds.
Held(k, d) == {o.id : o \in {x \in Objects(k) : x.dev = d /\ x.id # Null}}

\* What a new object of kind k may refer to: one held object of each kind in
\* Refers(k); a view cannot do without what it views.
RefChoices(k, d) ==
  LET ks == {r \in Refers(k) \cap Exercised : Held(r, d) # {}} IN
  IF k \in {"image_views", "buffer_views"} /\ ks = {} THEN {}
  ELSE {{<<r, f[r]>> : r \in ks} :
          f \in {g \in [ks -> UNION {Held(r, d) : r \in ks}] : \A r \in ks : g[r] \in Held(r, d)}}

Init ==
  /\ tables = [k \in Kinds |-> <<>>]
  /\ registered = [k \in RegisteredKinds |-> EmptyMap]
  /\ descriptor_set_owners = EmptyMap /\ command_buffer_devices = EmptyMap
  /\ swapchain_devices = EmptyMap /\ swapchain_surfaces = EmptyMap
  /\ swapchain_image_ids = EmptyMap
  /\ doing = [at |-> "serving", h |-> Null, id |-> Null]
  /\ live = {} /\ called = {} /\ orphaned = {} /\ faults = {}

------------------------------------------------------------------------------
(* Creation.  A creation the driver refuses changes nothing; one it grants *)
(* is named by the next index of the table.                                *)

\* The common part: a new native object h of kind k, named by the next id.
Named(k, d, h, owner, parent, refs) ==
  /\ tables' = Add(tables, k, h, owner)
  /\ live' = live \cup {Object(k, NewId(k), h, d, parent, refs)}

\* handle_CreateDevice; the queue of the device comes with it.
CreateDevice ==
  /\ Serving /\ Room /\ HasHandle("devices") /\ HasHandle("queues")
  /\ LET d == NewId("devices") IN
     /\ tables' = Add(tables, "devices", NewHandle("devices"), Null)
     /\ live' = live \cup {Object("devices", d, NewHandle("devices"), Null, <<>>, {}),
                           Object("queues", d, NewHandle("queues"), d, <<"devices", d>>, {})}
  /\ called' = {} /\ UNCHANGED <<maps, doing, watched>>

\* handle_GetDeviceQueue, handle_GetDeviceQueue2: Table::add_unique.
GetDeviceQueue ==
  /\ Serving /\ Room
  /\ \E d \in LiveDevices : \E q \in {o \in Objects("queues") : o.dev = d} :
       /\ ~ \E i \in AllIds("queues") : tables["queues"][i] = [h |-> q.h, owner |-> Native(d)]
       /\ tables' = Add(tables, "queues", q.h, Native(d))
  /\ called' = {} /\ UNCHANGED <<maps, doing, live, watched>>

\* SERVER_CREATE and the handlers of the same shape.
Create(k) ==
  /\ Serving /\ Room /\ HasHandle(k)
  /\ \E d \in LiveDevices : \E refs \in RefChoices(k, d) :
       Named(k, d, NewHandle(k), Native(d), <<>>, refs)
  /\ called' = {} /\ UNCHANGED <<maps, doing, watched>>

\* handle_Create{Graphics,Compute}Pipelines: a batch, in which each pipeline
\* that was made is named even when another one failed.
CreatePipelines ==
  /\ Serving /\ Room
  /\ \E d \in LiveDevices, n \in 1 .. Cardinality(Handles) :
       \E refs \in RefChoices("pipelines", d), made \in NewHandles("pipelines", n) :
         /\ tables' = [tables EXCEPT !["pipelines"] =
                         @ \o [i \in 1 .. n |-> [h |-> made[i], owner |-> Native(d)]]]
         /\ live' = live \cup {Object("pipelines", NewId("pipelines") + i - 1, made[i], d,
                                      <<>>, refs) : i \in 1 .. n}
  /\ called' = {} /\ UNCHANGED <<maps, doing, watched>>

\* handle_AllocateMemory, handle_CreateDescriptorUpdateTemplate and
\* handle_CreateSamplerYcbcrConversion: the id is entered in a map as well.
CreateRegistered(k) ==
  /\ Serving /\ Room /\ HasHandle(k)
  /\ \E d \in LiveDevices : \E refs \in RefChoices(k, d) :
       /\ Named(k, d, NewHandle(k), Native(d), <<>>, refs)
       /\ registered' = [registered EXCEPT ![k] =
                           Put(@, NewId(k), [owner |-> Native(d), h |-> NewHandle(k)])]
  /\ called' = {}
  /\ UNCHANGED <<descriptor_set_owners, command_buffer_devices, swapchain_devices,
                 swapchain_surfaces, swapchain_image_ids, doing, watched>>

\* handle_AllocateDescriptorSets: the set remembers its device and its pool.
AllocateDescriptorSet ==
  /\ Serving /\ Room /\ HasHandle("descriptor_sets")
  /\ \E d \in LiveDevices : \E p \in Held("descriptor_pools", d) :
       /\ Named("descriptor_sets", d, NewHandle("descriptor_sets"), Native(d), <<"descriptor_pools", p>>, {})
       /\ descriptor_set_owners' =
            Put(descriptor_set_owners, NewId("descriptor_sets"),
                [device |-> Native(d), pool |-> Get(tables, "descriptor_pools", p)])
  /\ called' = {}
  /\ UNCHANGED <<registered, command_buffer_devices, swapchain_devices, swapchain_surfaces,
                 swapchain_image_ids, doing, watched>>

\* handle_AllocateCommandBuffers: the native buffer remembers its device.
AllocateCommandBuffer ==
  /\ Serving /\ Room /\ HasHandle("command_buffers")
  /\ \E d \in LiveDevices : \E p \in Held("command_pools", d) :
       /\ Named("command_buffers", d, NewHandle("command_buffers"), Native(d), <<"command_pools", p>>, {})
       /\ command_buffer_devices' = 
            Put(command_buffer_devices, NewHandle("command_buffers"), Native(d))
  /\ called' = {}
  /\ UNCHANGED <<registered, descriptor_set_owners, swapchain_devices, swapchain_surfaces,
                 swapchain_image_ids, doing, watched>>

\* handle_Create{Wayland,Win32}SurfaceKHR.
CreateSurface ==
  /\ Serving /\ Room /\ HasHandle("surfaces")
  /\ Named("surfaces", Null, NewHandle("surfaces"), Null, <<>>, {})
  /\ called' = {} /\ UNCHANGED <<maps, doing, watched>>

\* handle_CreateSwapchainKHR; the images come with the swapchain and have no
\* names yet.
CreateSwapchain ==
  /\ Serving /\ Room /\ HasHandle("swapchains") /\ HasHandle("images")
  /\ \E d \in LiveDevices, s \in Held("surfaces", Null) :
       LET id == NewId("swapchains")
           h == NewHandle("swapchains")
           chain == Object("swapchains", id, h, d, <<>>, {<<"surfaces", s>>}) IN
       /\ tables' = Add(tables, "swapchains", h, Native(d))
       /\ live' = live \cup {chain, Object("images", Null, NewHandle("images"), d,
                                          <<"swapchains", id>>, {})}
       /\ swapchain_devices' = Put(swapchain_devices, h, Native(d))
       /\ swapchain_surfaces' = Put(swapchain_surfaces, h, Get(tables, "surfaces", s))
  /\ called' = {}
  /\ UNCHANGED <<registered, descriptor_set_owners, command_buffer_devices,
                 swapchain_image_ids, doing, watched>>

\* The images that a swapchain's entry names; an entry may be empty.
ImageIdsOf(s) ==
  IF s \in DOMAIN swapchain_image_ids THEN Range(swapchain_image_ids[s]) ELSE {}

\* handle_GetSwapchainImagesKHR: the images are named by a query that finds none
\* named.  Its second driver call, which fetches the images, may fail; they are
\* then null, and named all the same.
GetSwapchainImages ==
  /\ Serving /\ Room
  /\ \E d \in LiveDevices : \E s \in Held("swapchains", d), failed \in BOOLEAN :
       LET img == CHOOSE o \in Objects("images") : o.parent = <<"swapchains", s>> IN
       /\ ImageIdsOf(s) = {}
       /\ tables' = Add(tables, "images", IF failed THEN Null ELSE img.h, Native(d))
       /\ live' = IF failed THEN live
                  ELSE (live \ {img}) \cup {[img EXCEPT !.id = NewId("images")]}
       /\ swapchain_image_ids' = Put(swapchain_image_ids, s, <<NewId("images")>>)
  /\ called' = {}
  /\ UNCHANGED <<registered, descriptor_set_owners, command_buffer_devices, swapchain_devices,
                 swapchain_surfaces, doing, watched>>

\* The same where the first driver call, which counts the images, fails: the
\* entry is there and names nothing.
CountSwapchainImagesFails ==
  /\ Serving
  /\ \E d \in LiveDevices : \E s \in Held("swapchains", d) :
       /\ ImageIdsOf(s) = {}
       /\ swapchain_image_ids' = Put(swapchain_image_ids, s, <<>>)
  /\ called' = {}
  /\ UNCHANGED <<tables, registered, descriptor_set_owners, command_buffer_devices,
                 swapchain_devices, swapchain_surfaces, doing, live, watched>>

------------------------------------------------------------------------------
(* Destruction at the application's request. *)

\* SERVER_DESTROY.  The application does not destroy a swapchain's image.
Destroy(k) ==
  /\ Serving
  /\ \E d \in LiveDevices : \E id \in Held(k, d) :
       /\ OwnedBy(tables, k, id, Native(d))
       /\ \A o \in Objects(k) : o.id = id => o.parent = <<>>
       /\ LET gone == NativeDestroy(k, {Get(tables, k, id)}) IN
          /\ live' = live \ gone
          /\ orphaned' = orphaned \cup {o.id : o \in gone \cap Objects("command_buffers")}
       /\ tables' = Take(tables, k, {id})
  /\ called' = {} /\ UNCHANGED <<maps, doing, faults>>

\* handle_DestroyFence, handle_DestroySemaphore: take() before anything else.
DestroySync(k) ==
  /\ Serving
  /\ \E d \in LiveDevices : \E id \in Held(k, d) :
       /\ live' = live \ NativeDestroy(k, {Get(tables, k, id)})
       /\ tables' = Take(tables, k, {id})
  /\ called' = {} /\ UNCHANGED <<maps, doing, watched>>

\* As if the entry of the map were left behind.
DestroyRegisteredKeepingEntry(k) ==
  /\ Serving
  /\ \E d \in LiveDevices : \E id \in Held(k, d) :
       /\ id \in DOMAIN registered[k] /\ registered[k][id].owner = Native(d)
       /\ live' = live \ NativeDestroy(k, {Get(tables, k, id)})
       /\ tables' = Take(tables, k, {id})
  /\ called' = {} /\ UNCHANGED <<maps, doing, watched>>

\* handle_FreeMemory, handle_DestroyDescriptorUpdateTemplate and
\* handle_DestroySamplerYcbcrConversion.
DestroyRegistered(k) ==
  /\ Serving
  /\ \E d \in LiveDevices : \E id \in Held(k, d) :
       /\ id \in DOMAIN registered[k] /\ registered[k][id].owner = Native(d)
       /\ live' = live \ NativeDestroy(k, {Get(tables, k, id)})
       /\ tables' = Take(tables, k, {id})
       /\ registered' = [registered EXCEPT ![k] = Erase(@, {id})]
  /\ called' = {}
  /\ UNCHANGED <<descriptor_set_owners, command_buffer_devices, swapchain_devices,
                 swapchain_surfaces, swapchain_image_ids, doing, watched>>

\* As if the sets of a pool were left to the client to forget.
NoSetsOf(pool) == {}

\* The sets the tables believe to come from a pool.
SetsOf(pool) == {id \in DOMAIN descriptor_set_owners : descriptor_set_owners[id].pool = pool}

\* handle_DestroyDescriptorPool, handle_ResetDescriptorPool: the sets go first.
EmptyDescriptorPool(destroy) ==
  /\ Serving
  /\ \E d \in LiveDevices : \E p \in Held("descriptor_pools", d) :
       LET pool == Get(tables, "descriptor_pools", p)
           gone == NativeDestroy("descriptor_pools", {pool})
           without == Take(tables, "descriptor_sets", SetsOf(pool)) IN
       /\ tables' = IF destroy THEN Take(without, "descriptor_pools", {p}) ELSE without
       /\ live' = live \ (IF destroy THEN gone ELSE gone \ Objects("descriptor_pools"))
       /\ descriptor_set_owners' = Erase(descriptor_set_owners, SetsOf(pool))
  /\ called' = {}
  /\ UNCHANGED <<registered, command_buffer_devices, swapchain_devices, swapchain_surfaces,
                 swapchain_image_ids, doing, watched>>

\* handle_FreeDescriptorSets, which names the pool as well.
FreeDescriptorSet ==
  /\ Serving
  /\ \E d \in LiveDevices : \E id \in Held("descriptor_sets", d), p \in Held("descriptor_pools", d) :
       /\ id \in DOMAIN descriptor_set_owners
       /\ descriptor_set_owners[id] =
            [device |-> Native(d), pool |-> Get(tables, "descriptor_pools", p)]
       /\ live' = live \ NativeDestroy("descriptor_sets", {Get(tables, "descriptor_sets", id)})
       /\ tables' = Take(tables, "descriptor_sets", {id})
       /\ descriptor_set_owners' = Erase(descriptor_set_owners, {id})
  /\ called' = {}
  /\ UNCHANGED <<registered, command_buffer_devices, swapchain_devices, swapchain_surfaces,
                 swapchain_image_ids, doing, watched>>

\* handle_FreeCommandBuffers.
FreeCommandBuffer ==
  /\ Serving
  /\ \E d \in LiveDevices : \E id \in Held("command_buffers", d) :
       LET cb == Get(tables, "command_buffers", id) IN
       /\ live' = live \ NativeDestroy("command_buffers", {cb})
       /\ tables' = Take(tables, "command_buffers", {id})
       /\ command_buffer_devices' = Erase(command_buffer_devices, {cb})
  /\ called' = {}
  /\ UNCHANGED <<registered, descriptor_set_owners, swapchain_devices, swapchain_surfaces,
                 swapchain_image_ids, doing, watched>>

\* handle_DestroySurfaceKHR, once the surface's swapchains are gone.
DestroySurface ==
  /\ Serving
  /\ \E id \in Held("surfaces", Null) :
       /\ \A o \in live : <<"surfaces", id>> \notin o.refs
       /\ live' = live \ NativeDestroy("surfaces", {Get(tables, "surfaces", id)})
       /\ tables' = Take(tables, "surfaces", {id})
  /\ called' = {} /\ UNCHANGED <<maps, doing, watched>>

\* handle_DestroySwapchainKHR: the names of its images are retired with it.
DestroySwapchain ==
  /\ Serving
  /\ \E d \in LiveDevices : \E id \in Held("swapchains", d) :
       LET chain == Get(tables, "swapchains", id) IN
       /\ chain \in DOMAIN swapchain_devices /\ swapchain_devices[chain] = Native(d)
       /\ live' = live \ NativeDestroy("swapchains", {chain})
       /\ tables' = Take(Take(tables, "swapchains", {id}), "images", ImageIdsOf(id))
       /\ swapchain_devices' = Erase(swapchain_devices, {chain})
       /\ swapchain_surfaces' = Erase(swapchain_surfaces, {chain})
       /\ swapchain_image_ids' = Erase(swapchain_image_ids, {id})
  /\ called' = {}
  /\ UNCHANGED <<registered, descriptor_set_owners, command_buffer_devices, doing, watched>>

------------------------------------------------------------------------------
(* Calls that name objects without changing the tables. *)

Ref(k, id) == [kind |-> k, id |-> id, h |-> Get(tables, k, id)]

\* The handlers that refuse a name that resolves to nothing: waits, queries,
\* resets and the recording of commands.
UseChecked(k) ==
  /\ Serving
  /\ \E id \in AllIds(k) : Get(tables, k, id) # Null /\ called' = {Ref(k, id)}
  /\ UNCHANGED <<tables, maps, doing, live, watched>>

\* handle_QueueSubmit: everything named has to resolve, the fence may be absent.
QueueSubmit ==
  /\ Serving
  /\ \E q \in AllIds("queues"), cb \in AllIds("command_buffers"), f \in {Null} \cup AllIds("fences") :
       LET named == {Ref("queues", q), Ref("command_buffers", cb)}
                      \cup {Ref("fences", x) : x \in {f} \ {Null}} IN
       /\ \A r \in named : r.h # Null
       /\ called' = named
  /\ UNCHANGED <<tables, maps, doing, live, watched>>

\* handle_BindBufferMemory, handle_BindImageMemory: only the device is looked at.
BindMemory(k) ==
  /\ Serving
  /\ \E d \in LiveDevices, id \in AllIds(k), m \in AllIds("memories") :
       called' = {Ref(k, id), Ref("memories", m)}
  /\ UNCHANGED <<tables, maps, doing, live, watched>>

\* validate_transfer and map_transfer, which go by memory_metadata alone.
Transfer ==
  /\ Serving
  /\ \E d \in LiveDevices, m \in DOMAIN registered["memories"] :
       /\ registered["memories"][m].owner = Native(d)
       /\ called' = {[kind |-> "memories", id |-> m, h |-> registered["memories"][m].h]}
  /\ UNCHANGED <<tables, maps, doing, live, watched>>

------------------------------------------------------------------------------
(* Teardown. *)

\* handle_DestroyDevice takes the name and enters destroy_device_objects.
DestroyDevice ==
  /\ Serving
  /\ \E d \in LiveDevices :
       /\ doing' = [doing EXCEPT !.h = Native(d), !.id = d]
       /\ tables' = Take(tables, "devices", {d})
  /\ called' = {} /\ UNCHANGED <<maps, live, watched>>

\* What one line of destroy_device_objects finds to do.
ToDestroy(k) ==
  IF k = "borrowed"
  THEN {i \in UNION {ImageIdsOf(s) : s \in {x \in DOMAIN swapchain_image_ids :
                                              Owner(tables, "swapchains", x) = doing.h}} :
          tables["images"][i].owner # Null}
  ELSE {id \in AllIds(k) : OwnedBy(tables, k, id, doing.h)}

Pending == {i \in DOMAIN TeardownOrder : ToDestroy(TeardownOrder[i]) # {}}

\* What is wrong with destroying the native handles hs of kind k now.
Wrong(k, hs) ==
  LET gone == {o \in Objects(k) : o.h \in hs}
      left == live \ WithChildren(gone) IN
  {f \in {"not_there", "not_its_own", "in_use"} :
     CASE f = "not_there"   -> hs # {o.h : o \in gone} \/ \E o \in gone : o.dev # doing.id
       [] f = "not_its_own" -> k = "images" /\ \E o \in gone : o.parent # <<>>
       [] f = "in_use"      -> \E o \in left, g \in gone : <<g.kind, g.id>> \in o.refs}

\* The next line of destroy_device_objects that has something to do.
DestroyOwned ==
  /\ doing.h # Null /\ Pending # {}
  /\ LET k == TeardownOrder[Min(Pending)]
         ids == ToDestroy(k)
         hs == {Get(tables, k, id) : id \in ids} IN
     IF k = "borrowed"
     THEN tables' = Take(tables, "images", ids) /\ UNCHANGED <<live, faults>>
     ELSE /\ tables' = Take(tables, k, ids)
          /\ live' = live \ NativeDestroy(k, hs)
          /\ faults' = faults \cup Wrong(k, hs)
  /\ UNCHANGED <<maps, doing, called, orphaned>>

\* The rest of destroy_device_objects: what went with its parents is forgotten,
\* and the device destroyed.
RetireDevice ==
  /\ doing.h # Null /\ Pending = {}
  /\ LET gone == {c \in DOMAIN swapchain_devices : swapchain_devices[c] = doing.h}
         t == RetireOwned(RetireOwned(RetireOwned(tables, "command_buffers", doing.h),
                                      "descriptor_sets", doing.h), "queues", doing.h) IN
     /\ tables' = t
     /\ registered' =
          [k \in RegisteredKinds |->
             Erase(registered[k], {i \in DOMAIN registered[k] : registered[k][i].owner = doing.h})]
     /\ command_buffer_devices' =
          Erase(command_buffer_devices,
                {c \in DOMAIN command_buffer_devices : command_buffer_devices[c] = doing.h})
     /\ descriptor_set_owners' =
          Erase(descriptor_set_owners, {i \in DOMAIN descriptor_set_owners :
                                          descriptor_set_owners[i].device = doing.h})
     /\ swapchain_devices' = Erase(swapchain_devices, gone)
     /\ swapchain_surfaces' = Erase(swapchain_surfaces, gone)
     /\ swapchain_image_ids' =
          Erase(swapchain_image_ids,
                {s \in DOMAIN swapchain_image_ids : Owner(t, "swapchains", s) = Null})
  /\ live' = {o \in live : ~ (o.kind = "devices" /\ o.id = doing.id) /\ o.dev # doing.id}
  /\ faults' = faults \cup (IF \E o \in live : o.dev = doing.id /\ o.kind # "queues"
                            THEN {"left_behind"} ELSE {})
  /\ doing' = [doing EXCEPT !.h = Null, !.id = Null]
  /\ UNCHANGED <<called, orphaned>>

\* The connection is gone: destroy_session_objects, its devices in the order of
\* their ids and then its surfaces.
EndSession ==
  /\ Serving
  /\ doing' = [doing EXCEPT !.at = "ending"] /\ called' = {}
  /\ UNCHANGED <<tables, maps, live, watched>>

EndDevice ==
  /\ doing.at = "ending" /\ doing.h = Null /\ LiveDevices # {}
  /\ LET d == Min(LiveDevices) IN
     /\ doing' = [doing EXCEPT !.h = Native(d), !.id = d]
     /\ tables' = Take(tables, "devices", {d})
  /\ UNCHANGED <<maps, live, called, watched>>

EndSurfaces ==
  /\ doing.at = "ending" /\ doing.h = Null /\ LiveDevices = {}
  /\ LET hs == {Get(tables, "surfaces", s) : s \in AllIds("surfaces")} \ {Null} IN
     /\ live' = live \ NativeDestroy("surfaces", hs)
     /\ faults' = faults \cup Wrong("surfaces", hs)
  /\ doing' = [doing EXCEPT !.at = "ended"]
  /\ UNCHANGED <<tables, maps, called, orphaned>>

CreateSome ==
  \/ CreateDevice \/ GetDeviceQueue \/ CreatePipelines
  \/ \E k \in Exercised \cap (PlainKinds \cup {"fences", "semaphores", "descriptor_pools"}) : Create(k)
  \/ \E k \in Exercised \cap RegisteredKinds : CreateRegistered(k)
  \/ AllocateDescriptorSet \/ AllocateCommandBuffer
  \/ CreateSurface \/ CreateSwapchain \/ GetSwapchainImages \/ CountSwapchainImagesFails

DestroySome ==
  \/ \E k \in Exercised \cap (PlainKinds \cup {"pipelines"}) : Destroy(k)
  \/ \E k \in {"fences", "semaphores"} : DestroySync(k)
  \/ \E k \in RegisteredKinds : DestroyRegistered(k)
  \/ \E destroy \in BOOLEAN : EmptyDescriptorPool(destroy)
  \/ FreeDescriptorSet \/ FreeCommandBuffer \/ DestroySurface \/ DestroySwapchain

UseSome ==
  \/ \E k \in {"fences", "semaphores", "events", "command_buffers", "swapchains"} : UseChecked(k)
  \/ QueueSubmit \/ Transfer
  \/ \E k \in {"buffers", "images"} : BindMemory(k)

TeardownSome ==
  DestroyDevice \/ DestroyOwned \/ RetireDevice \/ EndSession \/ EndDevice \/ EndSurfaces

Next == CreateSome \/ DestroySome \/ UseSome \/ TeardownSome

Spec == Init /\ [][Next]_vars

------------------------------------------------------------------------------
(* Properties. *)

TypeOK ==
  /\ \A k \in Kinds : tables[k] \in Seq([h : Handles \cup {Null}, owner : Handles \cup {Null}])
  /\ \A k \in RegisteredKinds : DOMAIN registered[k] \subseteq AllIds(k)
  /\ DOMAIN descriptor_set_owners \subseteq AllIds("descriptor_sets")
  /\ DOMAIN swapchain_image_ids \subseteq AllIds("swapchains")
  /\ DOMAIN command_buffer_devices \cup DOMAIN swapchain_devices \subseteq Handles
  /\ doing \in [at : {"serving", "ending", "ended"}, h : Handles \cup {Null},
                id : 0 .. Len(tables["devices"])]
  /\ orphaned \subseteq AllIds("command_buffers")
  /\ faults \subseteq {"not_there", "not_its_own", "in_use", "left_behind"}

\* h is the native object that the client was told to call id.
Denotes(k, id, h) ==
  IF k = "queues"
  THEN \E o \in Objects(k) : o.h = h /\ Native(o.dev) = Owner(tables, k, id)
  ELSE \E o \in Objects(k) : o.h = h /\ o.id = id

\* objects.hpp: a name resolves to the object it was given for or to nothing,
\* whatever was destroyed since and whatever handles the driver has reused; its
\* owner is the device it was made on.  The names of command buffers whose pool
\* was destroyed are the exception (CleanRefusal; README, section 6).
NamesAreOwn ==
  Serving => \A k \in Kinds : \A id \in AllIds(k) :
    LET h == Get(tables, k, id) IN
    (h # Null /\ ~ (k = "command_buffers" /\ id \in orphaned)) =>
      /\ Denotes(k, id, h)
      /\ k \notin {"devices", "surfaces", "queues"} =>
           \E o \in Objects(k) : o.id = id /\ Native(o.dev) = Owner(tables, k, id)

\* add_unique and swapchain_image_ids: no object goes by two names.
OneNameEach ==
  Serving => \A k \in Kinds : \A i, j \in AllIds(k) :
    (i # j /\ Get(tables, k, i) # Null /\ Get(tables, k, i) = Get(tables, k, j))
      => k = "command_buffers" /\ {i, j} \cap orphaned # {}

\* The maps beside the tables say the same as the tables: an entry for every live
\* object and for no other, so that a later object that reuses the handle or the
\* device is not refused, freed or reset for somebody else's sake.
MapsAgree ==
  Serving =>
    /\ \A k \in RegisteredKinds :
         registered[k] = [id \in {i \in AllIds(k) : Get(tables, k, i) # Null} |->
                            [owner |-> Owner(tables, k, id), h |-> Get(tables, k, id)]]
    /\ descriptor_set_owners =
         [id \in {i \in AllIds("descriptor_sets") : Get(tables, "descriptor_sets", i) # Null} |->
            [device |-> Owner(tables, "descriptor_sets", id),
             pool |-> LET o == CHOOSE o \in Objects("descriptor_sets") : o.id = id
                      IN Get(tables, "descriptor_pools", o.parent[2])]]
    /\ \A o \in Objects("command_buffers") :
         o.h \in DOMAIN command_buffer_devices /\ command_buffer_devices[o.h] = Native(o.dev)
    /\ DOMAIN swapchain_devices = {o.h : o \in Objects("swapchains")}
    /\ DOMAIN swapchain_surfaces = DOMAIN swapchain_devices
    /\ \A o \in Objects("swapchains") : swapchain_devices[o.h] = Native(o.dev)

\* destroy_device_objects and destroy_session_objects destroy only what exists
\* and is the device's own, a swapchain's images never, and nothing before what
\* refers to it; and no object is left when its device goes.
TeardownIsOrderly == faults = {}

\* After a session nothing of it is left in the driver: what the comment on
\* destroy_session_objects says used to leak "for the server's whole life".
NothingLeaks == doing.at = "ended" => live = {}

\* objects.hpp:13-15: a client that uses a name after destroying the object "gets
\* a clean refusal rather than somebody else's object".
CleanRefusal == \A c \in called : c.h # Null /\ Denotes(c.kind, c.id, c.h)

\* Names and objects correspond one to one (objects.hpp).
OneToOne == NamesAreOwn /\ OneNameEach

\* Tables and the maps beside them (session.hpp) describe the same objects.
RecordsAgree == TypeOK /\ MapsAgree

\* The end of a device and of a session: in order, and complete.
TeardownIsClean == TeardownIsOrderly /\ NothingLeaks
=============================================================================
