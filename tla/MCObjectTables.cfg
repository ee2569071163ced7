SPECIFICATION Spec
CONSTANTS
  Exercised = {"command_pools", "images", "image_views", "framebuffers", "descriptor_pools", "memories", "fences", "samplers", "sampler_ycbcr_conversions"}
  Handles = {1, 2}
  MaxObjects = 5
CHECK_DEADLOCK FALSE
INVARIANTS
  OneToOne
  RecordsAgree
  TeardownIsClean
