---------------------------- MODULE QueryRequests ----------------------------
(* The requests that need no device, and those of surfaces and swapchains, with
   their replies: src/client/icd.cpp (the handshake), src/client/physical_device.cpp
   and src/client/wsi.cpp against src/server/handlers_instance.cpp and
   src/server/handlers_wsi.cpp; see module Wire for the language.  In a reply the
   server is the writer and the client the reader; its ids mean nothing to the
   client but a number, and a reader that gives up has its caller told of a failure,
   or of nothing found.  What is compared, clamped or masked after it was decoded is
   left out, and so are the replies of queries with an output chain beyond their
   base (module Codec has the chains).                                       *)
EXTENDS DeviceRequests

Format == Words(<<"format", "type", "tiling", "usage", "flags">>)
SparseFormat == Words(<<"format", "type", "samples", "usage", "tiling">>)
OfPhysicalDevice(body) == Id("physicalDevice") \o body
\* Every handler of a query looks at the reader and at the device once, at the end.
ToPhysicalDevice(body) == Id("physicalDevice") \o body \o Ok \o Required("physicalDevice")

-----------------------------------------------------------------------------
write_InstanceRequests ==
    [Handshake |-> Text("schema") \o Text("registry") \o Text("abi") \o Text("digest") \o
                   Words(<<"supported", "required">>)]
handle_InstanceRequests ==
    [Handshake |-> Text("schema") \o Text("registry") \o Text("abi") \o Text("digest") \o
                   Words(<<"supported", "required">>) \o Ok \o End]

write_PhysicalDeviceRequests ==
    [GetPhysicalDeviceProperties |-> OfPhysicalDevice(<<>>),
     GetPhysicalDeviceFeatures |-> OfPhysicalDevice(<<>>),
     GetPhysicalDeviceMemoryProperties |-> OfPhysicalDevice(<<>>),
     GetPhysicalDeviceQueueFamilyProperties |-> OfPhysicalDevice(<<>>),
     GetPhysicalDeviceFormatProperties |-> OfPhysicalDevice(Word("format")),
     GetPhysicalDeviceImageFormatProperties |-> OfPhysicalDevice(Format),
     GetPhysicalDeviceSparseImageFormatProperties |-> OfPhysicalDevice(SparseFormat)]
handle_PhysicalDeviceRequests ==
    [GetPhysicalDeviceProperties |-> ToPhysicalDevice(<<>>),
     GetPhysicalDeviceFeatures |-> ToPhysicalDevice(<<>>),
     GetPhysicalDeviceMemoryProperties |-> ToPhysicalDevice(<<>>),
     GetPhysicalDeviceQueueFamilyProperties |-> ToPhysicalDevice(<<>>),
     GetPhysicalDeviceFormatProperties |-> ToPhysicalDevice(Word("format")),
     GetPhysicalDeviceImageFormatProperties |-> ToPhysicalDevice(Format),
     GetPhysicalDeviceSparseImageFormatProperties |-> ToPhysicalDevice(SparseFormat)]

write_PhysicalDevice2Requests ==
    [GetPhysicalDeviceFormatProperties2 |-> In("hasNext", {0}) \o OfPhysicalDevice(Word("format")),
     GetPhysicalDeviceImageFormatProperties2 |-> OfPhysicalDevice(Format \o Chain("pNext", "ImageCreate")),
     GetPhysicalDeviceSparseImageFormatProperties2 |-> OfPhysicalDevice(SparseFormat),
     EnumerateDeviceExtensionProperties |-> OfPhysicalDevice(<<>>)]
handle_PhysicalDevice2Requests ==
    [GetPhysicalDeviceFormatProperties2 |-> ToPhysicalDevice(Word("format")),
     GetPhysicalDeviceImageFormatProperties2 |->
        ToPhysicalDevice(Format) \o Chain("pNext", "ImageCreate"),
     GetPhysicalDeviceSparseImageFormatProperties2 |-> ToPhysicalDevice(SparseFormat),
     EnumerateDeviceExtensionProperties |-> ToPhysicalDevice(<<>>)]

-----------------------------------------------------------------------------
(* Surfaces and swapchains. *)
write_SurfaceRequests ==
    [CreateWaylandSurfaceKHR |-> Word("appObjectId"),
     CreateWin32SurfaceKHR |-> Wide("hinstance") \o Wide("hwnd"),
     PollWindowEvents |-> Id("surface") \o Word("requested"),
     DestroySurfaceKHR |-> Needs("surface") \o Id("surface"),
     GetPhysicalDevicePresentationSupport |-> OfPhysicalDevice(Word("family")),
     GetPhysicalDeviceSurfaceSupportKHR |-> OfPhysicalDevice(Word("family") \o Id("surface")),
     GetPhysicalDeviceSurfaceCapabilitiesKHR |-> OfPhysicalDevice(Id("surface")),
     GetPhysicalDeviceSurfaceFormatsKHR |-> OfPhysicalDevice(Id("surface")),
     GetPhysicalDeviceSurfacePresentModesKHR |-> OfPhysicalDevice(Id("surface"))]
handle_SurfaceRequests ==
    [CreateWaylandSurfaceKHR |-> Word("appObjectId") \o Ok,
     CreateWin32SurfaceKHR |-> Wide("hinstance") \o Wide("hwnd") \o Ok,
     PollWindowEvents |-> Id("surface") \o Word("requested") \o Ok \o Required("surface"),
     DestroySurfaceKHR |-> Id("surface") \o Patch("surface") \o Ok,
     GetPhysicalDevicePresentationSupport |-> ToPhysicalDevice(Word("family")),
     GetPhysicalDeviceSurfaceSupportKHR |->
        ToPhysicalDevice(Word("family") \o Id("surface")) \o Required("surface"),
     GetPhysicalDeviceSurfaceCapabilitiesKHR |-> ToPhysicalDevice(Id("surface")) \o Required("surface"),
     GetPhysicalDeviceSurfaceFormatsKHR |-> ToPhysicalDevice(Id("surface")) \o Required("surface"),
     GetPhysicalDeviceSurfacePresentModesKHR |-> ToPhysicalDevice(Id("surface")) \o Required("surface")]

write_SwapchainRequests ==
    [CreateSwapchainKHR |-> Id("device") \o write_SwapchainCreateInfoKHR,
     DestroySwapchainKHR |-> Needs("swapchain") \o Id("device") \o Id("swapchain"),
     GetSwapchainImagesKHR |-> Id("device") \o Id("swapchain"),
     AcquireNextImageKHR |->
        Id("device") \o Id("swapchain") \o Wide("timeout") \o Id("semaphore") \o Id("fence"),
     QueuePresentKHR |->
        Id("queue") \o Word("waitCount") \o Ids("waitSemaphores", "waitCount") \o
        Word("swapchainCount") \o Each("swapchainCount", Id("swapchain") \o Word("imageIndex"))]
handle_SwapchainRequests ==
    [CreateSwapchainKHR |-> OfDevice(read_SwapchainCreateInfoKHR),
     DestroySwapchainKHR |->
        Id("device") \o Id("swapchain") \o Ok \o Required("device") \o Required("swapchain"),
     GetSwapchainImagesKHR |->
        Id("device") \o Id("swapchain") \o Ok \o Required("device") \o Required("swapchain"),
     AcquireNextImageKHR |->
        Id("device") \o Id("swapchain") \o Wide("timeout") \o Id("semaphore") \o Id("fence") \o
        Ok \o Required("device") \o Required("swapchain") \o Checked("semaphore") \o Checked("fence"),
     QueuePresentKHR |->
        Id("queue") \o CountFits("waitCount", 8) \o
        Each("waitCount", Id("waitSemaphores") \o Required("waitSemaphores")) \o
        CountFits("swapchainCount", 12) \o
        Each("swapchainCount", Id("swapchain") \o Word("imageIndex") \o Required("swapchain")) \o
        Ok \o Required("queue")]

-----------------------------------------------------------------------------
(* Replies: the status, and for some the result, come first. *)
Status(body) == Word("status") \o body
Result(body) == Words(<<"status", "result">>) \o body
Families == Words(<<"queueFlags", "queueCount", "timestampValidBits">> \o Granularity)
MemoryTypes == Each("memoryTypeCount", Words(<<"propertyFlags", "heapIndex">>))
MemoryHeaps == Each("memoryHeapCount", Wide("size") \o Word("flags"))

write_PhysicalDeviceReplies ==
    [HandshakeReply |-> Status(Text("digest") \o Words(<<"devices", "loaderVersion", "capabilities">>)),
     EnumeratePhysicalDevicesReply |-> Result(Word("count") \o Each("count", Wide("remoteId"))),
     PropertiesReply |-> Status(write_PhysicalDeviceProperties),
     FeaturesReply |-> Status(Blob("features")),
     MemoryPropertiesReply |-> Status(Word("memoryTypeCount") \o MemoryTypes \o Word("memoryHeapCount") \o MemoryHeaps),
     QueueFamilyPropertiesReply |-> Status(Word("count") \o Each("count", Families)),
     FormatPropertiesReply |-> Status(Blob("properties")),
     ImageFormatPropertiesReply |-> Result(Blob("properties")),
     SparseImageFormatPropertiesReply |-> Status(Word("count") \o Each("count", write_SparseImageFormatProperties))]
\* The counts of the device list and of the queue families have no limit of their own,
\* and nobody asks whether the memory types were all there.
read_PhysicalDeviceReplies ==
    [HandshakeReply |->
        Status(Text("digest") \o Words(<<"devices", "loaderVersion", "capabilities">>)) \o Ok \o End,
     EnumeratePhysicalDevicesReply |-> Result(Word("count") \o Each("count", Wide("remoteId") \o Ok)),
     PropertiesReply |-> Status(read_PhysicalDeviceProperties),
     FeaturesReply |-> Status(Blob("features")),
     MemoryPropertiesReply |-> Status(Word("memoryTypeCount") \o MemoryTypes \o Word("memoryHeapCount") \o MemoryHeaps),
     QueueFamilyPropertiesReply |-> Status(Word("count") \o Each("count", Families)) \o Ok,
     FormatPropertiesReply |-> Status(Blob("properties")),
     ImageFormatPropertiesReply |-> Result(Blob("properties")) \o Ok,
     SparseImageFormatPropertiesReply |->
        Status(Word("count") \o Limit("count") \o Fits("count", 20) \o Each("count", read_SparseImageFormatProperties))]

Rates == Words(<<"sampleCounts", "width", "height">>)
write_PhysicalDevice2Replies ==
    [FormatProperties2Reply |-> Status(write_FormatProperties),
     QueueFamilyProperties2Reply |-> Status(Word("count") \o Each("count", write_QueueFamilyProperties)),
     MemoryProperties2Reply |-> Status(write_PhysicalDeviceMemoryProperties),
     SparseImageFormatProperties2Reply |-> Status(Word("count") \o Each("count", write_SparseImageFormatProperties)),
     FragmentShadingRatesReply |-> Result(Word("count") \o Each("count", Rates)),
     ExtensionPropertiesReply |-> Result(Word("count") \o Each("count", write_ExtensionProperties))]
read_PhysicalDevice2Replies ==
    [FormatProperties2Reply |-> Status(read_FormatProperties),
     QueueFamilyProperties2Reply |->
        Status(Word("count") \o Limit("count") \o Fits("count", 24) \o
               Each("count", read_QueueFamilyProperties)) \o Ok,
     MemoryProperties2Reply |-> Status(read_PhysicalDeviceMemoryProperties),
     SparseImageFormatProperties2Reply |->
        Status(Word("count") \o Limit("count") \o Fits("count", 20) \o Each("count", read_SparseImageFormatProperties)),
     FragmentShadingRatesReply |->
        Result(Word("count") \o Limit("count") \o Fits("count", 12) \o Each("count", Rates)) \o Ok,
     ExtensionPropertiesReply |->
        Result(Word("count") \o Limit("count") \o
               Each("count", Text("extensionName") \o Word("specVersion"))) \o Ok]

\* The events of a window: a sequence number, the type and four values, of which the
\* client uses two.
Event == Wide("sequence") \o Words(<<"type", "a", "b", "c", "d">>)
write_SurfaceReplies ==
    [PollWindowEventsReply |-> Status(Words(<<"overflowed", "eventCount">>) \o Each("eventCount", Event)),
     SurfaceSupportReply |-> Result(Word("supported")),
     SurfaceCapabilitiesReply |-> Result(Blob("capabilities")),
     SurfaceFormatsReply |-> Result(Word("count") \o Each("count", write_SurfaceFormatKHR)),
     SurfacePresentModesReply |-> Result(Word("count") \o Each("count", Word("mode"))),
     GetSwapchainImagesReply |-> Result(Word("count") \o Each("count", Wide("image"))),
     QueuePresentReply |-> Result(Word("count") \o Each("count", Word("perSwapchain")))]
read_SurfaceReplies ==
    [PollWindowEventsReply |->
        Status(Words(<<"overflowed", "eventCount">>) \o Limit("eventCount") \o Each("eventCount", Event \o Ok)),
     SurfaceSupportReply |-> Result(Word("supported")) \o Ok,
     SurfaceCapabilitiesReply |-> Result(Blob("capabilities")),
     SurfaceFormatsReply |->
        Result(Word("count") \o Fits("count", 8) \o Each("count", read_SurfaceFormatKHR)) \o Ok,
     SurfacePresentModesReply |-> Result(Word("count") \o Each("count", Word("mode"))) \o Ok,
     GetSwapchainImagesReply |-> Result(Word("count") \o Each("count", Wide("image"))) \o Ok,
     QueuePresentReply |-> Result(Word("count") \o Each("count", Word("perSwapchain"))) \o Ok]

-----------------------------------------------------------------------------
QueryWriters ==
    write_InstanceRequests @@ write_PhysicalDeviceRequests @@ write_PhysicalDevice2Requests @@
    write_SurfaceRequests @@ write_SwapchainRequests @@
    write_PhysicalDeviceReplies @@ write_PhysicalDevice2Replies @@ write_SurfaceReplies
QueryHandlers ==
    handle_InstanceRequests @@ handle_PhysicalDeviceRequests @@ handle_PhysicalDevice2Requests @@
    handle_SurfaceRequests @@ handle_SwapchainRequests @@
    read_PhysicalDeviceReplies @@ read_PhysicalDevice2Replies @@ read_SurfaceReplies
=============================================================================
