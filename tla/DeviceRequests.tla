--------------------------- MODULE DeviceRequests ---------------------------
(* The requests of a device: what src/client/device.cpp and src/client/memory.cpp
   put in each, and how the handlers in src/server/handlers_device.cpp,
   handlers_memory.cpp and (for pools) handlers_command.cpp take it apart; see
   module Wire for the language and module CommandRequests for the requests that
   record commands.  What the tables do with the ids is in module ObjectTables.
   Null pointers and the tests against the number of memory types, the size of an
   allocation or of a reply are left out.                                    *)
EXTENDS CommandRequests

\* The handle every request to a device starts with.
OfDevice(body) == Id("device") \o Ok \o Required("device") \o body
Needs(f) == In(f, Handles)

-----------------------------------------------------------------------------
write_DeviceRequests ==
    [CreateDevice |-> In("enabledLayerCount", {0}) \o Id("physicalDevice") \o write_DeviceCreateInfo,
     DestroyDevice |-> Needs("device") \o Id("device"),
     GetDeviceQueue |-> Id("device") \o Words(<<"family", "index">>),
     GetDeviceQueue2 |-> Id("device") \o Words(<<"flags", "family", "index">>),
     GetDeviceGroupPeerMemoryFeatures |-> Id("device") \o Words(<<"heap", "local", "remote">>),
     QueueWaitIdle |-> Id("queue"),
     DeviceWaitIdle |-> Id("device")]
handle_DeviceRequests ==
    [CreateDevice |-> Id("physicalDevice") \o Ok \o Required("physicalDevice") \o read_DeviceCreateInfo,
     DestroyDevice |-> Id("device") \o Ok \o Required("device"),
     GetDeviceQueue |-> Id("device") \o Words(<<"family", "index">>) \o Ok \o Required("device"),
     GetDeviceQueue2 |-> Id("device") \o Words(<<"flags", "family", "index">>) \o Ok \o Required("device"),
     GetDeviceGroupPeerMemoryFeatures |->
        Id("device") \o Words(<<"heap", "local", "remote">>) \o Ok \o Required("device"),
     QueueWaitIdle |-> Id("queue") \o Ok \o Required("queue"),
     DeviceWaitIdle |-> Id("device") \o Ok \o Required("device")]

-----------------------------------------------------------------------------
(* Submission.  vkQueueSubmit refuses null handles before it writes anything. *)
write_QueueSubmit ==
    When("submitCount", Nat \ {0},
        When("waitCount", Nat \ {0}, Needs("waitSemaphores")) \o
        When("commandBufferCount", Nat \ {0}, Needs("commandBuffers")) \o
        When("signalCount", Nat \ {0}, Needs("signalSemaphores"))) \o
    Id("queue") \o Id("fence") \o Word("submitCount") \o
    Each("submitCount",
        Chain("pNext", "Submit") \o
        Word("waitCount") \o Each("waitCount", Id("waitSemaphores") \o Word("waitStage")) \o
        Word("commandBufferCount") \o Ids("commandBuffers", "commandBufferCount") \o
        Word("signalCount") \o Ids("signalSemaphores", "signalCount"))
handle_QueueSubmit ==
    Id("queue") \o Id("fence") \o CountBounded("submitCount", 16) \o
    Ok \o Required("queue") \o Checked("fence") \o
    Each("submitCount",
        Chain("pNext", "Submit") \o
        CountBounded("waitCount", 12) \o
        Each("waitCount", Id("waitSemaphores") \o Word("waitStage") \o Required("waitSemaphores")) \o
        CountBounded("commandBufferCount", 8) \o
        Each("commandBufferCount", Id("commandBuffers") \o Required("commandBuffers")) \o
        CountBounded("signalCount", 8) \o
        Each("signalCount", Id("signalSemaphores") \o Required("signalSemaphores")) \o Ok) \o End

write_QueueSubmit2 ==
    When("submitCount", Nat \ {0},
        When("waitCount", Nat \ {0}, Needs("waitSemaphore")) \o
        When("commandBufferCount", Nat \ {0}, Needs("commandBuffer")) \o
        When("signalCount", Nat \ {0}, Needs("signalSemaphore"))) \o
    Id("queue") \o Id("fence") \o Word("submitCount") \o Each("submitCount", write_SubmitInfo2)
handle_QueueSubmit2 ==
    Id("queue") \o Id("fence") \o Word("submitCount") \o Required("queue") \o Checked("fence") \o
    Limit("submitCount") \o Fits("submitCount", 16) \o Each("submitCount", read_SubmitInfo2) \o Ok \o End

\* Binds of ranges of a buffer or of an opaque image, and of parts of an image.
SparseBind == Wide("resourceOffset") \o Wide("size") \o Id("memory") \o Wide("memoryOffset") \o Word("flags")
SparseImageBind ==
    Words(<<"aspectMask", "mipLevel", "arrayLayer", "x", "y", "z", "width", "height", "depth">>) \o
    Id("memory") \o Wide("memoryOffset") \o Word("flags")
Binds(n, object, bind) ==
    Word(n) \o Each(n, Id(object) \o Word("bindCount") \o Each("bindCount", bind))
BoundBinds(n, object, bind, bytes) ==
    CountBounded(n, 12) \o
    Each(n, Id(object) \o Patch(object) \o CountBounded("bindCount", bytes) \o
            Each("bindCount", bind \o Patch("memory")))
write_QueueBindSparse ==
    Id("queue") \o Id("fence") \o Word("bindInfoCount") \o
    Each("bindInfoCount",
        Chain("pNext", "Submit") \o
        Word("waitCount") \o Ids("waitSemaphores", "waitCount") \o
        Binds("bufferBindCount", "buffer", SparseBind) \o
        Binds("opaqueBindCount", "opaqueImage", SparseBind) \o
        Binds("imageBindCount", "image", SparseImageBind) \o
        Word("signalCount") \o Ids("signalSemaphores", "signalCount"))
\* An unknown fence or semaphore is dropped without a word, and a message that ends
\* before its count is taken for one without binds.
handle_QueueBindSparse ==
    Id("queue") \o Id("fence") \o Patch("fence") \o CountBounded("bindInfoCount", 16) \o Required("queue") \o
    Each("bindInfoCount",
        Chain("pNext", "Submit") \o
        CountBounded("waitCount", 8) \o Each("waitCount", Id("waitSemaphores") \o Patch("waitSemaphores")) \o
        BoundBinds("bufferBindCount", "buffer", SparseBind, 36) \o
        BoundBinds("opaqueBindCount", "opaqueImage", SparseBind, 36) \o
        BoundBinds("imageBindCount", "image", SparseImageBind, 56) \o
        CountBounded("signalCount", 8) \o
        Each("signalCount", Id("signalSemaphores") \o Patch("signalSemaphores")) \o Ok)

-----------------------------------------------------------------------------
(* Fences, semaphores and the requests next to them. *)
write_SyncRequests ==
    [CreateFence |-> Id("device") \o write_Plain,
     DestroyFence |-> Needs("fence") \o Id("device") \o Id("fence"),
     ResetFences |->
        In("fenceCount", Nat \ {0}) \o Needs("fences") \o
        Id("device") \o Word("fenceCount") \o Ids("fences", "fenceCount"),
     GetFenceStatus |-> Needs("device") \o Needs("fence") \o Id("device") \o Id("fence"),
     WaitForFences |->
        In("fenceCount", Nat \ {0}) \o Needs("fences") \o
        Id("device") \o Words(<<"waitAll", "fenceCount">>) \o Ids("fences", "fenceCount") \o Wide("timeout")]
write_SemaphoreRequests ==
    [CreateSemaphore |-> Id("device") \o Try(write_SemaphoreCreateInfo),
     DestroySemaphore |-> Needs("semaphore") \o Id("device") \o Id("semaphore"),
     GetSemaphoreCounterValue |-> Id("device") \o Id("semaphore"),
     WaitSemaphores |->
        In("hasNext", {0}) \o
        Id("device") \o Words(<<"flags", "semaphoreCount">>) \o
        Each("semaphoreCount", Id("semaphore") \o Wide("value")) \o Wide("timeout"),
     SignalSemaphore |-> In("hasNext", {0}) \o Id("device") \o Id("semaphore") \o Wide("value"),
     ResetQueryPool |-> Id("device") \o Id("queryPool") \o Words(<<"firstQuery", "queries">>),
     GetBufferDeviceAddress |->
        In("hasNext", {0}) \o Needs("device") \o Needs("buffer") \o Id("device") \o Id("buffer")]
handle_SyncRequests ==
    [CreateFence |-> OfDevice(read_Plain),
     DestroyFence |-> Id("device") \o Id("fence") \o Patch("fence") \o Ok \o Required("device"),
     ResetFences |->
        Id("device") \o Word("fenceCount") \o In("fenceCount", Nat \ {0}) \o
        Limit("fenceCount") \o Fits("fenceCount", 8) \o
        Each("fenceCount", Id("fences") \o Required("fences")) \o Ok \o End \o Required("device"),
     GetFenceStatus |-> Id("device") \o Id("fence") \o Ok \o End \o Required("device") \o Required("fence"),
     WaitForFences |->
        Id("device") \o Words(<<"waitAll", "fenceCount">>) \o In("fenceCount", Nat \ {0}) \o
        Limit("fenceCount") \o Fits("fenceCount", 8) \o
        Each("fenceCount", Id("fences") \o Required("fences")) \o Wide("timeout") \o Ok \o End \o
        Required("device")]
handle_SemaphoreRequests ==
    [CreateSemaphore |-> OfDevice(read_SemaphoreCreateInfo),
     DestroySemaphore |-> Id("device") \o Id("semaphore") \o Patch("semaphore") \o Ok \o Required("device"),
     GetSemaphoreCounterValue |-> Id("device") \o Id("semaphore") \o Ok \o Required("device") \o Required("semaphore"),
     WaitSemaphores |->
        Id("device") \o Word("flags") \o CountBounded("semaphoreCount", 16) \o
        Each("semaphoreCount", Id("semaphore") \o Wide("value") \o Required("semaphore")) \o
        Wide("timeout") \o Ok \o Required("device"),
     SignalSemaphore |->
        Id("device") \o Id("semaphore") \o Wide("value") \o Ok \o Required("device") \o Required("semaphore"),
     ResetQueryPool |->
        Id("device") \o Id("queryPool") \o Words(<<"firstQuery", "queries">>) \o Ok \o
        Required("device") \o Required("queryPool")]

-----------------------------------------------------------------------------
(* Creation and destruction.  SIMPLE_CREATE ignores whether the writer gave up, so
   that the server is left with a request that ends after the device.         *)
SIMPLE_CREATE ==
    [CreateBuffer |-> write_BufferCreateInfo, CreateImage |-> write_ImageCreateInfo,
     CreateBufferView |-> write_BufferViewCreateInfo, CreateEvent |-> write_EventCreateInfo,
     CreateQueryPool |-> write_QueryPoolCreateInfo, CreateSampler |-> write_SamplerCreateInfo,
     CreatePipelineCache |-> write_PipelineCacheCreateInfo,
     CreatePipelineLayout |-> write_PipelineLayoutCreateInfo,
     CreateRenderPass |-> write_RenderPassCreateInfo,
     CreateDescriptorPool |-> write_DescriptorPoolCreateInfo, CreateCommandPool |-> write_Plain]
SERVER_CREATE ==
    [CreateBuffer |-> read_BufferCreateInfo, CreateImage |-> read_ImageCreateInfo,
     CreateBufferView |-> read_BufferViewCreateInfo, CreateEvent |-> read_EventCreateInfo,
     CreateQueryPool |-> read_QueryPoolCreateInfo, CreateSampler |-> read_SamplerCreateInfo,
     CreatePipelineCache |-> read_PipelineCacheCreateInfo,
     CreatePipelineLayout |-> read_PipelineLayoutCreateInfo,
     CreateRenderPass |-> read_RenderPassCreateInfo,
     CreateDescriptorPool |-> read_DescriptorPoolCreateInfo, CreateCommandPool |-> read_Plain,
     CreateImageView |-> read_ImageViewCreateInfo, CreateFramebuffer |-> read_FramebufferCreateInfo]
\* The handlers written out, which start in the same way.
handle_DescriptorCreates ==
    [AllocateDescriptorSets |-> read_DescriptorSetAllocateInfo,
     CreateDescriptorUpdateTemplate |-> read_DescriptorUpdateTemplateCreateInfo,
     GetDescriptorSetLayoutSupport |-> read_DescriptorSetLayoutCreateInfo,
     CreateSamplerYcbcrConversion |-> read_SamplerYcbcrConversionCreateInfo]
handle_CreateShaderModule == Id("device") \o read_ShaderModuleCreateInfo \o Ok \o End \o Required("device")
handle_CreateRenderPass2 == OfDevice(read_RenderPassCreateInfo2)
handle_CreateDescriptorSetLayout == OfDevice(read_DescriptorSetLayoutCreateInfo)
handle_AllocateMemory == OfDevice(read_MemoryAllocateInfo)
write_ViewCreates ==
    [CreateImageView |-> Id("device") \o write_ImageViewCreateInfo,
     CreateFramebuffer |-> Id("device") \o write_FramebufferCreateInfo]
write_DescriptorCreates ==
    [CreateDescriptorSetLayout |->
        In("hasNext", {0}) \o In("updateAfterBind", {0}) \o
        Id("device") \o Try(write_DescriptorSetLayoutCreateInfo),
     AllocateDescriptorSets |->
        Needs("descriptorPool") \o When("descriptorSetCount", Nat \ {0}, Needs("pSetLayouts")) \o
        Id("device") \o Try(write_DescriptorSetAllocateInfo),
     CreateDescriptorUpdateTemplate |-> Id("device") \o write_DescriptorUpdateTemplateCreateInfo,
     GetDescriptorSetLayoutSupport |-> Id("device") \o Try(write_DescriptorSetLayoutCreateInfo),
     CreateSamplerYcbcrConversion |->
        In("hasNext", {0}) \o Id("device") \o Try(write_SamplerYcbcrConversionCreateInfo)]
write_CreateShaderModule == Needs("device") \o Id("device") \o write_ShaderModuleCreateInfo
write_CreateRenderPass2 == Id("device") \o write_RenderPassCreateInfo2
write_AllocateMemory == Id("device") \o Try(write_MemoryAllocateInfo)
write_CreateRequests ==
    [k \in DOMAIN SIMPLE_CREATE |-> Id("device") \o Try(SIMPLE_CREATE[k])] @@
    write_ViewCreates @@ write_DescriptorCreates @@
    [CreateShaderModule |-> write_CreateShaderModule, CreateRenderPass2 |-> write_CreateRenderPass2,
     AllocateMemory |-> write_AllocateMemory]
handle_CreateRequests ==
    [k \in DOMAIN SERVER_CREATE |-> OfDevice(SERVER_CREATE[k])] @@
    [k \in DOMAIN handle_DescriptorCreates |-> OfDevice(handle_DescriptorCreates[k])] @@
    [CreateShaderModule |-> handle_CreateShaderModule, CreateRenderPass2 |-> handle_CreateRenderPass2,
     CreateDescriptorSetLayout |-> handle_CreateDescriptorSetLayout, AllocateMemory |-> handle_AllocateMemory]

\* Objects the server destroys only where it knows them, and where they are the
\* device's own (whose they are: module ObjectTables).
Destroyed ==
    {"DestroyBuffer", "DestroyImage", "DestroyBufferView", "DestroyEvent", "DestroyQueryPool", "DestroySampler",
     "DestroyShaderModule", "DestroyPipelineCache", "DestroyPipelineLayout", "DestroyPipeline",
     "DestroyRenderPass", "DestroyDescriptorSetLayout", "DestroyImageView", "DestroyFramebuffer",
     "DestroyDescriptorUpdateTemplate", "DestroySamplerYcbcrConversion", "DestroyCommandPool", "FreeMemory",
     "DestroyDescriptorPool"}
SIMPLE_DESTROY == [k \in Destroyed |-> Needs("object") \o Id("device") \o Id("object")]
SERVER_DESTROY ==
    [k \in Destroyed |-> Id("device") \o Id("object") \o Ok \o Required("device") \o Required("object")]

-----------------------------------------------------------------------------
(* Events, queries, pipelines and caches. *)
write_EventRequests ==
    [GetImageSubresourceLayout |->
        Id("device") \o Id("image") \o Words(<<"aspectMask", "mipLevel", "arrayLayer">>),
     GetEventStatus |-> Id("device") \o Id("event"),
     SetEvent |-> Id("device") \o Id("event"),
     ResetEvent |-> Id("device") \o Id("event"),
     GetQueryPoolResults |->
        Id("device") \o Id("queryPool") \o Words(<<"firstQuery", "queries">>) \o
        Wide("size") \o Wide("stride") \o Word("flags"),
     GetPipelineCacheData |-> Id("device") \o Id("pipelineCache") \o Wide("capacity") \o Word("wantData"),
     MergePipelineCaches |->
        Id("device") \o Id("dstCache") \o Word("cacheCount") \o Ids("srcCaches", "cacheCount"),
     GetRenderAreaGranularity |-> Id("device") \o Id("renderPass")]
write_PipelineRequests ==
    [FreeDescriptorSets |->
        Needs("pool") \o When("setCount", Nat \ {0}, Needs("descriptorSets")) \o
        Id("device") \o Id("pool") \o Word("setCount") \o Ids("descriptorSets", "setCount"),
     ResetDescriptorPool |-> Needs("pool") \o Id("device") \o Id("pool") \o Word("flags"),
     CreateGraphicsPipelines |->
        Id("device") \o Id("pipelineCache") \o Word("createInfoCount") \o
        Each("createInfoCount", write_GraphicsPipelineCreateInfo),
     CreateComputePipelines |->
        Id("device") \o Id("pipelineCache") \o Word("createInfoCount") \o
        Each("createInfoCount", Try(write_ComputePipelineCreateInfo))]
EventOperation == Id("device") \o Id("event") \o Ok \o Required("device") \o Required("event")
handle_EventRequests ==
    [GetImageSubresourceLayout |->
        Id("device") \o Id("image") \o Patch("image") \o Words(<<"aspectMask", "mipLevel", "arrayLayer">>) \o
        Ok \o Required("device"),
     GetEventStatus |-> EventOperation, SetEvent |-> EventOperation, ResetEvent |-> EventOperation,
     GetQueryPoolResults |->
        Id("device") \o Id("queryPool") \o Words(<<"firstQuery", "queries">>) \o
        Wide("size") \o Wide("stride") \o Word("flags") \o Ok \o Required("device") \o Required("queryPool"),
     GetPipelineCacheData |->
        Id("device") \o Id("pipelineCache") \o Wide("capacity") \o Word("wantData") \o Ok \o
        Required("device") \o Required("pipelineCache"),
     MergePipelineCaches |->
        Id("device") \o Id("dstCache") \o CountBounded("cacheCount", 8) \o
        Each("cacheCount", Id("srcCaches") \o Required("srcCaches")) \o Ok \o
        Required("device") \o Required("dstCache"),
     GetRenderAreaGranularity |-> Id("device") \o Id("renderPass") \o Ok \o Required("device") \o Required("renderPass")]
handle_PipelineRequests ==
    [FreeDescriptorSets |->
        Id("device") \o Id("pool") \o CountBounded("setCount", 8) \o
        Each("setCount", Id("descriptorSets") \o Required("descriptorSets")) \o Ok \o End \o
        Required("device") \o Required("pool"),
     ResetDescriptorPool |->
        Id("device") \o Id("pool") \o Word("flags") \o Ok \o Required("device") \o Required("pool") \o End,
     CreateGraphicsPipelines |->
        Id("device") \o Id("pipelineCache") \o CountBounded("createInfoCount", 4) \o Ok \o
        Each("createInfoCount", read_GraphicsPipelineCreateInfo) \o Required("device") \o Checked("pipelineCache"),
     CreateComputePipelines |->
        Id("device") \o Id("pipelineCache") \o CountBounded("createInfoCount", 4) \o Ok \o
        Required("device") \o Checked("pipelineCache") \o
        Each("createInfoCount", read_ComputePipelineCreateInfo)]

-----------------------------------------------------------------------------
(* Descriptors. *)

\* By a template: both sides go through the entries the template was made of, and
\* the handler compares the counts and types with its own: they are equal, except
\* past the end of a message (Ok).
write_UpdateDescriptorSetWithTemplate ==
    Id("device") \o Id("dstSet") \o Id("template") \o Word("entryCount") \o
    Each("entryCount",
        Words(<<"descriptorCount", "descriptorType">>) \o
        Each("descriptorCount",
            When("descriptorType", ImageTypes, Id("sampler") \o Id("imageView") \o Word("imageLayout")) \o
            When("descriptorType", {"TEXEL_BUFFER"}, Id("bufferView")) \o
            When("descriptorType", {"BUFFER", "other"}, Id("buffer") \o Wide("offset") \o Wide("range"))))
handle_UpdateDescriptorSetWithTemplate ==
    Id("device") \o Id("dstSet") \o Id("template") \o Word("entryCount") \o
    Required("device") \o Required("dstSet") \o Required("template") \o
    Each("entryCount",
        Words(<<"descriptorCount", "descriptorType">>) \o Ok \o Limit("descriptorCount") \o
        Each("descriptorCount",
            When("descriptorType", {"TEXEL_BUFFER"}, Id("bufferView") \o Patch("bufferView")) \o
            When("descriptorType", ImageTypes,
                Id("sampler") \o Patch("sampler") \o Id("imageView") \o Patch("imageView") \o Word("imageLayout")) \o
            When("descriptorType", {"BUFFER", "other"},
                Id("buffer") \o Patch("buffer") \o Wide("offset") \o Wide("range")))) \o Ok \o End

write_UpdateDescriptorSets ==
    Id("device") \o Word("writeCount") \o Each("writeCount", write_WriteDescriptorSet) \o
    Word("copyCount") \o
    Each("copyCount", In("srcSet", Handles) \o In("dstSet", Handles) \o write_CopyDescriptorSet)
handle_UpdateDescriptorSets ==
    Id("device") \o CountBounded("writeCount", 4) \o Ok \o Required("device") \o
    Each("writeCount", read_WriteDescriptorSet) \o
    CountBounded("copyCount", 4) \o Each("copyCount", read_CopyDescriptorSet) \o Ok \o End

-----------------------------------------------------------------------------
(* Memory. *)
write_MemoryRequests ==
    [BindBufferMemory |-> Id("device") \o Id("buffer") \o Id("memory") \o Wide("offset"),
     BindImageMemory |-> Id("device") \o Id("image") \o Id("memory") \o Wide("offset"),
     GetBufferMemoryRequirements |-> Id("device") \o Id("buffer"),
     GetImageMemoryRequirements |-> Id("device") \o Id("image"),
     BindBufferMemory2 |->
        When("bindCount", Nat \ {0}, In("hasNext", {0})) \o Id("device") \o Word("bindCount") \o
        Each("bindCount", Id("buffer") \o Id("memory") \o Wide("offset")),
     BindImageMemory2 |->
        Id("device") \o Word("bindCount") \o
        Each("bindCount", Id("image") \o Id("memory") \o Wide("offset") \o Chain("pNext", "BindImageMemory2")),
     GetImageSparseMemoryRequirements2 |-> Id("device") \o Id("image"),
     GetDeviceMemoryCommitment |-> Id("device") \o Id("memory"),
     GetImageSparseMemoryRequirements |-> Id("device") \o Id("image")]
\* An id nobody knows reaches the driver as a null handle where it is only patched.
handle_MemoryRequests ==
    [BindBufferMemory |->
        Id("device") \o Id("buffer") \o Patch("buffer") \o Id("memory") \o Patch("memory") \o Wide("offset") \o
        Ok \o Required("device"),
     BindImageMemory |->
        Id("device") \o Id("image") \o Patch("image") \o Id("memory") \o Patch("memory") \o Wide("offset") \o
        Ok \o Required("device"),
     GetBufferMemoryRequirements |-> Id("device") \o Id("buffer") \o Patch("buffer") \o Ok \o Required("device"),
     GetImageMemoryRequirements |-> Id("device") \o Id("image") \o Patch("image") \o Ok \o Required("device"),
     GetDeviceMemoryCommitment |-> Id("device") \o Id("memory") \o Ok \o Required("device") \o Required("memory"),
     GetImageSparseMemoryRequirements |->
        Id("device") \o Id("image") \o Ok \o Required("device") \o Required("image"),
     BindBufferMemory2 |->
        Id("device") \o CountBounded("bindCount", 24) \o
        Each("bindCount", Id("buffer") \o Patch("buffer") \o Id("memory") \o Patch("memory") \o Wide("offset")) \o
        Ok \o Required("device"),
     BindImageMemory2 |->
        Id("device") \o CountBounded("bindCount", 28) \o
        Each("bindCount", Id("image") \o Patch("image") \o Id("memory") \o Patch("memory") \o Wide("offset") \o
                          Chain("pNext", "BindImageMemory2")) \o Ok \o Required("device"),
     GetImageSparseMemoryRequirements2 |->
        Id("device") \o Id("image") \o Ok \o Required("device") \o Required("image"),
     GetBufferDeviceAddress |->
        Id("device") \o Id("buffer") \o Ok \o End \o Required("device") \o Required("buffer")]

-----------------------------------------------------------------------------
DeviceWriters ==
    write_DeviceRequests @@ write_SyncRequests @@ write_SemaphoreRequests @@ write_EventRequests @@
    write_CreateRequests @@ SIMPLE_DESTROY @@ write_PipelineRequests @@ write_MemoryRequests @@
    [QueueSubmit |-> write_QueueSubmit, QueueSubmit2 |-> write_QueueSubmit2,
     QueueBindSparse |-> write_QueueBindSparse,
     UpdateDescriptorSetWithTemplate |-> write_UpdateDescriptorSetWithTemplate,
     UpdateDescriptorSets |-> write_UpdateDescriptorSets]
DeviceHandlers ==
    handle_DeviceRequests @@ handle_SyncRequests @@ handle_SemaphoreRequests @@ handle_CreateRequests @@
    SERVER_DESTROY @@ handle_EventRequests @@ handle_PipelineRequests @@ handle_MemoryRequests @@
    [QueueSubmit |-> handle_QueueSubmit, QueueSubmit2 |-> handle_QueueSubmit2,
     QueueBindSparse |-> handle_QueueBindSparse,
     UpdateDescriptorSetWithTemplate |-> handle_UpdateDescriptorSetWithTemplate,
     UpdateDescriptorSets |-> handle_UpdateDescriptorSets]
=============================================================================
