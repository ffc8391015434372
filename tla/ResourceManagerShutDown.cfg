SPECIFICATION Spec
CONSTANTS
  window = window
  glyphs = glyphs
  advmco = advmco
  cmseco = cmseco
  font = font
  advmbw = advmbw
  cmsebw = cmsebw
  adventure = adventure
  combat = combat
  Null = Null
  Windows = {window}
  Icons = {glyphs, advmco, cmseco}
  Fonts = {font}
  Pictures = {advmbw, cmsebw}
  Cursors = {adventure, combat}
  Glyph <- MCGlyph
  ColorIcon <- MCColorIcon
  Picture <- MCPicture
  Contents <- MCContents
  NumArchives = 2
  Reads <- MCReads
  Addr = {a1, a2, a3}
  Slots = {s1, s2}
PROPERTIES
  ExpungeEmpties
  ImplementsCache
CHECK_DEADLOCK FALSE
