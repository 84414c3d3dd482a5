\* Two frames cut and joined in every way, words of the mask at every alignment;
\* requests and texts that do not fit their buffers, a length that is refused.
CONSTANTS
  Frames <- MCFrames
  MaxFrames = 2
  BufferSize = 24
  TextBufferSize = 2
  LengthRange = 16
  LengthTop = 32
  Requests <- MCRequests
  Urbs <- MCUrbs
  MaxReqNum = 2
  Segments = {20}
SPECIFICATION Spec
INVARIANTS
  ParserInSync
  PayloadUnmasked
  AnswersPerFrame
  UrbExchange
PROPERTIES
  FramesHandled
