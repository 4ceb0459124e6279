\* Two decodes and two resets, called on the GPU thread or from another one,
\* with destruction at any point.
CONSTANTS
  MaxDecodes = 2
  MaxResets = 2
SPECIFICATION Spec
PROPERTIES ImplementsVideoDecoderContract
\* The client may stop calling: the decoder then rests.
CHECK_DEADLOCK FALSE
